---- MODULE Spec2Model ----
(***************************************************************************)
(* A model of the IconML synchronisation engine (iconml_watcher.py: the    *)
(* request, requestbyhash and addsample threads) and of the local batch    *)
(* worker (iconml_compare_byhash.py).                                      *)
(*                                                                         *)
(* Time is the wall clock in whole seconds.  A file name is a pair         *)
(* <<base, ext>> (os.path.splitext), a remote key a pair <<prefix, name>>. *)
(* A directory and the remote store are functions from the names (keys)    *)
(* present to the files (objects).                                         *)
(***************************************************************************)
EXTENDS Integers, Sequences, FiniteSets, TLC

VARIABLES
    now,                \* time.time(), whole seconds
    s3,                 \* the bucket: key -> [lm, body]
    dirRequest,         \* request/           name -> [mtime, data]
    dirInfoResults,     \* inforesults/       name -> [mtime, open, body]
    dirImageResults,    \* imageresults/      name -> [mtime, open, body]
    \* ---- RBHWatcher (requestbyhash thread)
    pcRBH,              \* position of RBHWatcher.run in its loop
    batches,            \* self.batches, in insertion order: <<[name, hashes]>>
    rbh_seen_s3_lm,     \* self.rbh_seen_s3_lm: name -> LastModified
    dirRBH,             \* requestbyhash/         name -> [mtime, body]
    dirRBHDone,         \* requestbyhashdone/     name -> summary text
    dirRBHBak,          \* bakrequestbyhashdone/  <<base, sfx, ext>> -> file
    \* ---- the batch worker (iconml_compare_byhash.py)
    pcW,                \* position of main in its loop
    seen_mtime,         \* seen_mtime: name -> st_mtime
    active_batches,     \* active_batches, in insertion order: <<[key, bs]>>
    \* ---- RequestWatcher (request thread)
    pcReq,              \* position of RequestWatcher.run in its loop
    pending_inforesults,            \* name -> RequestTask
    pending_imageresults,           \* icon base -> RequestTask
    seen_s3_lm_request,             \* name -> LastModified
    seen_local_inforesults_mtime,   \* name -> mtime
    seen_local_imageresults_mtime,  \* name -> mtime
    dirUploadImages,    \* uploadimages/      the names present
    dirBakInfoResults,  \* bakinforesults/    <<base, sfx, ext>> -> file
    dirBakImageResults, \* bakimageresults/   <<base, sfx, ext>> -> file
    \* ---- AddSampleWatcher (addsample thread)
    pcAS,               \* position of AddSampleWatcher.run in its loop
    as_seen_s3_lm,      \* self.seen_s3_lm: name -> LastModified
    pending_names,      \* self.pending_names: name -> source key
    dirASIn,            \* addsamples/           name -> [mtime, open, body]
    dirASDone,          \* addsampleprocessed/   name -> [mtime, open, body]
    dirASBak,           \* bakaddsamples/        <<base, sfx, ext>> -> file
    \* ---- one call of the store adapter in progress
    call,               \* [op, ..., pc] of the call, or NoCall
    \* ---- the programs beside the engine
    client,             \* iconml_request_demo.py: [pc, ...] of one run
    sampleW,            \* addsampleinfo.py main: [pc, seen, starts]
    imageW,             \* iconml_siamese_compare.py main: [pc, seen, ...]
    \* ---- history of the run (read by no operation)
    hist                \* [submits, puts, restarts, faults, errors, pulls,
                        \* fetches]: uploads by the client per name, uploads
                        \* by the engine per key, restarts, handlers with a
                        \* failed request, exceptions that reached run() per
                        \* thread, downloads of a manifest per name,
                        \* downloads of an icon per name

wkVars == <<pcW, seen_mtime, active_batches>>

reqVars == <<pcReq, pending_inforesults, pending_imageresults,
             seen_s3_lm_request, seen_local_inforesults_mtime,
             seen_local_imageresults_mtime, dirUploadImages,
             dirBakInfoResults, dirBakImageResults>>

asVars == <<pcAS, as_seen_s3_lm, pending_names, dirASIn, dirASDone, dirASBak>>

adVars == <<call>>

sideVars == <<client, sampleW, imageW>>

vars == <<now, s3, dirRequest, dirInfoResults, dirImageResults,
          pcRBH, batches, rbh_seen_s3_lm, dirRBH, dirRBHDone, dirRBHBak,
          wkVars, reqVars, asVars, adVars, sideVars, hist>>

----------------------------------------------------------------------------
(* Bounds of the model *)

T0 == 5             \* the clock's value at start
MaxTime == 13       \* no step but Stall moves the clock past this
MaxSubmits == 2     \* uploads of a manifest by the client, per name
MaxRestarts == 1    \* restarts of the engine
MaxPieces == 2      \* pieces a writer appends to a file
MaxRequests == 1    \* uploads of a request by the client, per name
RestartTime == 3    \* seconds from the death of the process to its restart

(* Program constants *)

S3_REQUEST == "iconml/request/"
S3_IMAGES == "iconml/images/"
S3_PROCESSING == "iconml/processing/"
S3_PROCESSED == "iconml/processed/"
S3_INFORESULTS == "iconml/inforesults/"
S3_IMAGERESULTS == "iconml/imageresults/"
S3_RBH == "iconml/requestbyhash/"
S3_AS_IN == "iconml/addsamples/"
S3_AS_DONE == "iconml/addsampleprocessed/"
S3_RBH_DONE == "iconml/requestbyhashdone/"
POLL_S3_INTERVAL == 2
POLL_LOCAL_INTERVAL == 1
MAX_WAIT_SECONDS == 1800
\* s3lm > old + 1.0: the tolerance of the change detection
LM_TOLERANCE == 1
\* time.sleep(1.5) of move_local, on the clock of whole seconds
MOVE_SLEEP == 2

Ids == {"A", "B", "C"}
ManifestNames == {"b1"}
JSON == ".json"
TXT == ".txt"

----------------------------------------------------------------------------
(* Functions with a finite domain, used as dictionaries and directories *)

Put(f, k, v) == [x \in (DOMAIN f) \cup {k} |-> IF x = k THEN v ELSE f[x]]
Del(f, k) == [x \in (DOMAIN f) \ {k} |-> f[x]]
Empty == [x \in {} |-> 0]

RECURSIVE Perms(_)
Perms(S) ==
    IF S = {} THEN {<<>>}
    ELSE UNION {{<<x>> \o p : p \in Perms(S \ {x})} : x \in S}

Range(q) == {q[i] : i \in DOMAIN q}

\* The members of S in the order in which ord lists them (ord lists all).
RECURSIVE InOrder(_, _)
InOrder(S, ord) ==
    IF ord = <<>> THEN <<>>
    ELSE (IF Head(ord) \in S THEN <<Head(ord)>> ELSE <<>>) \o InOrder(S, Tail(ord))

----------------------------------------------------------------------------
(* Store adapter *)

\* <<lm>> for an object that exists, <<>> (None) otherwise
s3_head_last_modified_ts(store, key) ==
    IF key \in DOMAIN store THEN <<store[key].lm>> ELSE <<>>

\* A variant that keeps what a key holds and writes a second copy beside it.
s3_upload_versioned(store, key, body, t) ==
    IF key \in DOMAIN store
    THEN Put(store, <<key[1], <<key[2][1] \o "-2", key[2][2]>> >>,
             [lm |-> t, body |-> body])
    ELSE Put(store, key, [lm |-> t, body |-> body])

\* s3_upload: upload_file puts the object, replacing what the key holds
s3_upload(store, key, body, t) == Put(store, key, [lm |-> t, body |-> body])

\* Every file name the model uses, in the order in which names are listed.
AllNames ==
    << <<"", "">>, <<"A", JSON>>, <<"A", ".tmp">>, <<"B", JSON>>,
       <<"b1", ".tmp">>, <<"b1", TXT>>, <<"b2", TXT>>, <<"p", JSON>>,
       <<"p", ".png">> >>

\* the keys under a prefix, the ones ending in "/" left out (the name <<"", "">>)
s3_list_prefix(store, prefix) ==
    SelectSeq([i \in DOMAIN AllNames |-> <<prefix, AllNames[i]>>],
              LAMBDA k : k \in DOMAIN store /\ k[2] # <<"", "">>)

\* os.listdir
listdir(dir) == SelectSeq(AllNames, LAMBDA n : n \in DOMAIN dir)

\* s3_copy, s3_delete, s3_move; a copy of a missing key raises ClientError
s3_copy(store, src_key, dst_key, t) ==
    Put(store, dst_key, [lm |-> t, body |-> store[src_key].body])

s3_delete(store, key) == Del(store, key)

s3_move(store, src_key, dst_key, t) ==
    IF src_key = dst_key THEN store
    ELSE s3_delete(s3_copy(store, src_key, dst_key, t), src_key)

\* A variant without the test s1 > 0.
file_is_stable_any_size(dir, fname, grew, gone) ==
    IF fname \in gone THEN FALSE
    ELSE Len(dir[fname].body)
           = Len(dir[fname].body) + (IF fname \in grew THEN 1 ELSE 0)

\* file_is_stable: the size before and after STABLE_WAIT_SEC is the same and
\* not zero.  grew: the names to which a writer appends during the wait;
\* gone: the names removed before the second sample (FileNotFoundError).
getsize(file) == Len(file.body)

file_is_stable(dir, fname, grew, gone) ==
    LET s1 == getsize(dir[fname])
        s2 == getsize(dir[fname]) + (IF fname \in grew THEN 1 ELSE 0)
    IN  IF fname \in gone THEN FALSE
        ELSE s1 = s2 /\ s1 > 0

\* str.endswith(".json")
endswith_json(fname) == fname[2] = JSON

\* move_local: dst is <base><ext>, or <base>_<int(time.time())><ext> when taken;
\* shutil.move replaces a file already at dst.
move_local_dst(dir, name, t) ==
    IF <<name[1], <<>>, name[2]>> \in DOMAIN dir
    THEN <<name[1], <<t>>, name[2]>>
    ELSE <<name[1], <<>>, name[2]>>

move_local(dir, name, file, t) == Put(dir, move_local_dst(dir, name, t), file)

----------------------------------------------------------------------------
(* Local files the batch pipeline reads *)

\* load_json: the parsed object, or None (<<>>) for a file that does not parse
load_json(dir, name) ==
    IF name \in DOMAIN dir /\ dir[name].data.ok THEN <<dir[name].data>> ELSE <<>>

\* str.strip of a manifest line
strip(line) ==
    CASE line = " A " -> "A"
      [] line = " B" -> "B"
      [] line = "  " -> ""
      [] OTHER -> line

\* str.startswith("#")
startswith_hash(s) == s \in {"#", "#C", "# old"}

\* RBHWatcher._read_hashes: the set of the stripped lines that are neither
\* blank nor comments; an unreadable file gives the empty set.
RECURSIVE read_lines(_)
read_lines(body) ==
    IF body = <<>> THEN {}
    ELSE LET s == strip(Head(body))
         IN  (IF s = "" \/ startswith_hash(s) THEN {} ELSE {s})
             \cup read_lines(Tail(body))

_read_hashes(file) == IF file.readable THEN read_lines(file.body) ELSE {}

_info_exists_locally(h) == <<h, JSON>> \in DOMAIN dirInfoResults

\* <<base>>, or <<>> (None) when request/<h>.json is missing, does not parse
\* or names no icon
_icon_base_from_request(h) ==
    LET j == <<h, JSON>>
        data == load_json(dirRequest, j)
    IN  IF j \notin DOMAIN dirRequest THEN <<>>
        ELSE IF data = <<>> THEN <<>>
        ELSE IF data[1].icon_filename[1] = "" THEN <<>>
        ELSE <<data[1].icon_filename[1]>>

_image_exists_for_hash(h) ==
    LET base == _icon_base_from_request(h)
    IN  IF base = <<>> THEN FALSE
        ELSE <<base[1], JSON>> \in DOMAIN dirImageResults

\* RBHWatcher._all_done_for_batch: the members in the order `ord` in which the
\* set is iterated, split into the done and the pending list
_all_done_for_batch(hashes, ord) ==
    LET it == InOrder(hashes, ord)
        ok(h) == _info_exists_locally(h) /\ _image_exists_for_hash(h)
    IN  [done |-> SelectSeq(it, ok),
         pending |-> SelectSeq(it, LAMBDA h : ~ok(h))]

\* RBHWatcher._write_summary: the lines of the summary
_write_summary(name, done, pending, all_hashes) ==
    << <<"SUMMARY FOR:", name>>, <<"TOTAL HASHES:", Cardinality(all_hashes)>>,
       <<"">>, <<"[SUCCESS COMPLETED]", Len(done)>> >>
    \o [i \in 1..Len(done) |-> <<"  - ", done[i]>>]
    \o << <<"">>, <<"[PENDING_OR_TIMEOUT]", Len(pending)>> >>
    \o [i \in 1..Len(pending) |-> <<"  - ", pending[i]>>]
    \o << <<"">>, <<"NOTE:">> >>

----------------------------------------------------------------------------
(* RBHWatcher: the batch pipeline of the engine *)

BatchNames(bs) == {bs[i].name : i \in DOMAIN bs}

BatchOf(bs, name) == bs[CHOOSE i \in DOMAIN bs : bs[i].name = name]

\* A variant that adds the ids of the new content to the recorded ones.
SetBatchMerged(bs, name, hashes) ==
    IF name \in BatchNames(bs)
    THEN [i \in DOMAIN bs |-> IF bs[i].name = name
                               THEN [name |-> name,
                                     hashes |-> bs[i].hashes \cup hashes]
                               ELSE bs[i]]
    ELSE Append(bs, [name |-> name, hashes |-> hashes])

\* self.batches[name] = hashes: a new key goes last, a known key keeps its place
SetBatch(bs, name, hashes) ==
    IF name \in BatchNames(bs)
    THEN [i \in DOMAIN bs |-> IF bs[i].name = name
                               THEN [name |-> name, hashes |-> hashes] ELSE bs[i]]
    ELSE Append(bs, [name |-> name, hashes |-> hashes])

\* A variant that empties the table.
PopAll(bs, name) == <<>>

\* self.batches.pop(name, None)
PopBatch(bs, name) == SelectSeq(bs, LAMBDA b : b.name # name)

Lookup(f, k, default) == IF k \in DOMAIN f THEN f[k] ELSE default


\* The sleep of run() after an exception that left a handler
ERROR_SLEEP == 1

\* A variant in which the exception ends the thread.
run_except_exit(top) == "off"

\* run(): `except Exception` logs, sleeps and falls back into `while True`,
\* the thread goes on at the first handler of a tick.
run_except(top) == top

\* The faults of one handler: mv, the keys whose delete or move raises
\* ClientError; raise, the keys or names at which an exception is raised that
\* the handler does not catch; read, the keys whose local copy cannot be
\* read.
NoFaults == [mv |-> {}, raise |-> {}, read |-> {}]

\* 1 when a fault of flt or of the sets more happens
fault_count(flt, more) ==
    IF flt.mv \cup flt.raise \cup flt.read \cup more = {} THEN 0 ELSE 1

\* One more exception of thread th has reached run().
count_error(h, th, raised) ==
    IF raised THEN [h EXCEPT !.errors = Put(@, th, Lookup(@, th, 0) + 1)] ELSE h

\* A variant that pulls a key only while the watch table does not know it.
is_new_only(s3lm, local_exists, local_m, old) ==
    s3lm # <<>> /\ old = 0

\* The test of _pull_batches_from_s3 (and of the other two pipelines) for
\* downloading a listed key: s3lm is <<lm>> or <<>> (None).
\* A variant that records the age of the object.
recorded_age(s3lm, t) == t - s3lm[1]

\* s3lm or time.time(): the value a pull records in the watch table
recorded_lm(s3lm, t) == IF s3lm[1] = 0 THEN t ELSE s3lm[1]

is_new_or_updated(s3lm, local_exists, local_m, old) ==
    /\ s3lm # <<>>
    /\ \/ ~local_exists
       \/ s3lm[1] > local_m + LM_TOLERANCE
       \/ s3lm[1] > old + LM_TOLERANCE

\* One turn of the loop of _pull_batches_from_s3, for one listed key.
\* st = [seen, batches, dir]; headFail, dlFail: the keys whose
\* head_object, download_file raise in this tick.
_pull_one(st, key, t, headFail, dlFail, flt) ==
    LET name == key[2]
        s3lm == IF key \in headFail THEN <<>>
                ELSE s3_head_last_modified_ts(s3, key)
        old == Lookup(st.seen, name, 0)
        local_m == IF name \in DOMAIN st.dir THEN st.dir[name].mtime ELSE 0
        file == [kind |-> "manifest", mtime |-> t, size |-> Len(s3[key].body),
                 open |-> FALSE, body |-> s3[key].body,
                 readable |-> key \notin flt.read]
    IN  IF st.raised THEN st
        ELSE IF name[2] # TXT THEN st
        ELSE IF key \in flt.raise THEN [st EXCEPT !.raised = TRUE]
        ELSE IF ~is_new_or_updated(s3lm, name \in DOMAIN st.dir, local_m, old)
        THEN st
        ELSE IF key \in dlFail THEN st
        ELSE [seen |-> Put(st.seen, name, recorded_lm(s3lm, t)),
              batches |-> SetBatch(st.batches, name, _read_hashes(file)),
              dir |-> Put(st.dir, name, file),
              pulls |-> Put(st.pulls, name, Lookup(st.pulls, name, 0) + 1),
              raised |-> FALSE]

RECURSIVE _pull_from(_, _, _, _, _, _)
_pull_from(keys, st, t, headFail, dlFail, flt) ==
    IF keys = <<>> THEN st
    ELSE _pull_from(Tail(keys),
                    _pull_one(st, Head(keys), t, headFail, dlFail, flt),
                    t, headFail, dlFail, flt)

\* RBHWatcher._pull_batches_from_s3; flt.raise: the keys whose head request
\* raises an exception that is no ClientError, flt.read: the keys whose
\* downloaded file cannot be opened.
PullBatches(headFail, dlFail, flt) ==
    /\ pcRBH = "pull"
    /\ LET st == _pull_from(s3_list_prefix(s3, S3_RBH),
                            [seen |-> rbh_seen_s3_lm, batches |-> batches,
                             dir |-> dirRBH, pulls |-> hist.pulls,
                             raised |-> FALSE],
                            now, headFail, dlFail, flt)
       IN  /\ rbh_seen_s3_lm' = st.seen
           /\ batches' = st.batches
           /\ dirRBH' = st.dir
           /\ pcRBH' = IF st.raised THEN run_except("pull") ELSE "finalize"
           /\ now' = IF st.raised THEN now + ERROR_SLEEP ELSE now
           /\ hist' = count_error([hist EXCEPT !.faults =
                                      @ + fault_count(flt, headFail \cup dlFail),
                                                !.pulls = st.pulls],
                                  "RBH", st.raised)
           /\ st.raised => now + ERROR_SLEEP <= MaxTime
    /\ UNCHANGED <<s3, dirRequest, dirInfoResults, dirImageResults,
                   dirRBHDone, dirRBHBak,
                   wkVars, reqVars, asVars, adVars, sideVars>>

\* A file in an archive directory is never read again: of its content, the
\* model keeps the kind.
Archived(file) == [kind |-> file.kind]

\* One turn of the loop of _try_finalize_batches, for one batch.
\* st = [now, s3, done, bak, src, batches]; ord: the order in which the
\* hash sets are iterated; upFail: the names whose summary upload raises;
\* flt.raise: the names whose summary cannot be written, open() raising.
_finalize_one(st, b, ord, upFail, flt) ==
    LET r == _all_done_for_batch(b.hashes, ord)
        out == [kind |-> "summary", mtime |-> st.now, size |-> 1, open |-> FALSE,
                readable |-> TRUE,
                body |-> _write_summary(b.name, r.done, r.pending, b.hashes)]
        key == <<S3_RBH_DONE, b.name>>
        written == [st EXCEPT !.done = Put(@, b.name, out)]
        bak1 == move_local(st.bak, b.name, Archived(out), st.now)
        t1 == st.now + MOVE_SLEEP
        hasSrc == b.name \in DOMAIN st.src
    IN  IF st.raised THEN st
        ELSE IF r.pending # <<>> THEN st
        ELSE IF b.name \in flt.raise THEN [st EXCEPT !.raised = TRUE]
        ELSE IF b.name \in upFail THEN written
        ELSE [now |-> IF hasSrc THEN t1 + MOVE_SLEEP ELSE t1,
              raised |-> FALSE,
              s3 |-> s3_upload(st.s3, key, out.body, st.now),
              done |-> Del(st.done, b.name),
              bak |-> IF hasSrc
                      THEN move_local(bak1, b.name, Archived(st.src[b.name]), t1)
                      ELSE bak1,
              src |-> Del(st.src, b.name),
              batches |-> PopBatch(st.batches, b.name)]

RECURSIVE _finalize_from(_, _, _, _, _)
_finalize_from(items, st, ord, upFail, flt) ==
    IF items = <<>> THEN st
    ELSE _finalize_from(Tail(items),
                        _finalize_one(st, Head(items), ord, upFail, flt),
                        ord, upFail, flt)

\* RBHWatcher._try_finalize_batches
TryFinalizeBatches(ord, upFail, flt) ==
    /\ pcRBH = "finalize"
    /\ LET st == _finalize_from(batches,
                                [now |-> now, s3 |-> s3, done |-> dirRBHDone,
                                 bak |-> dirRBHBak, src |-> dirRBH,
                                 batches |-> batches, raised |-> FALSE],
                                ord, upFail, flt)
           t == IF st.raised THEN st.now + ERROR_SLEEP ELSE st.now
       IN  /\ t <= MaxTime \/ now > MaxTime
           /\ now' = t
           /\ s3' = st.s3
           /\ dirRBHDone' = st.done
           /\ dirRBHBak' = st.bak
           /\ dirRBH' = st.src
           /\ batches' = st.batches
           /\ pcRBH' = IF st.raised THEN run_except("pull") ELSE "sleep"
           /\ hist' = count_error([hist EXCEPT !.faults =
                                      @ + fault_count(flt, upFail)],
                                  "RBH", st.raised)
    /\ UNCHANGED <<rbh_seen_s3_lm, dirRequest, dirInfoResults, dirImageResults,
                   wkVars, reqVars, asVars, adVars, sideVars>>

\* RBHWatcher.run: the two sleeps that end a tick
SleepRBH ==
    /\ pcRBH = "sleep"
    /\ now + POLL_LOCAL_INTERVAL + POLL_S3_INTERVAL <= MaxTime
    /\ now' = now + POLL_LOCAL_INTERVAL + POLL_S3_INTERVAL
    /\ pcRBH' = "pull"
    /\ UNCHANGED <<s3, dirRequest, dirInfoResults, dirImageResults, batches,
                   rbh_seen_s3_lm, dirRBH, dirRBHDone, dirRBHBak, hist,
                   wkVars, reqVars, asVars, adVars, sideVars>>

----------------------------------------------------------------------------
(* The surroundings of the batch pipeline: the client that submits manifests,
   the worker whose descriptors and results appear in the local directories,
   and the passing of time.  _pull_batches_from_s3 reads no file of the
   worker and _try_finalize_batches follows it at once, so a file that appears
   between the two is read as one that appeared before the tick: the worker's
   files and the seconds are placed between the ticks. *)

ManifestFiles == {<<n, TXT>> : n \in ManifestNames}

\* What the client writes into a manifest.
ManifestBodies == {<<"A", "B", "C">>, <<" A ", "", "# old", " B">>, <<"#C", "  ">>}

\* The ids the worker can process; it never produces anything for C.
WorkedIds == {"A", "B"}

\* icon_filename of the descriptor of each id: A and B share an icon.
IconOf(h) == <<"p", ".png">>

\* The descriptors request/<h>.json that may appear: well formed; for B also
\* without an icon_filename, or not parseable.
DescriptorsOf(h) ==
    {[ok |-> TRUE, icon_filename |-> IconOf(h)]}
    \cup (IF h = "B" THEN {[ok |-> TRUE, icon_filename |-> <<"", "">>],
                          [ok |-> FALSE, icon_filename |-> <<"", "">>]}
          ELSE {})

\* mode_requestbyhash: s3_upload_file(txt, iconml/requestbyhash/<name>)
ClientSubmit(name, body) ==
    /\ Lookup(hist.submits, name, 0) < MaxSubmits
    /\ s3' = s3_upload(s3, <<S3_RBH, name>>, body, now)
    /\ hist' = [hist EXCEPT !.submits = Put(@, name, Lookup(@, name, 0) + 1)]
    /\ UNCHANGED <<now, dirRequest, dirInfoResults, dirImageResults, pcRBH,
                   batches, rbh_seen_s3_lm, dirRBH, dirRBHDone, dirRBHBak,
                   wkVars, reqVars, asVars, adVars, sideVars>>

\* No program of the host is inside a tick ("off": the program does not run).
BetweenTicks == pcRBH \in {"pull", "off"} /\ pcW \in {"scan", "off"}

\* The batch pipeline reads no time stamp of the worker's files: they are
\* taken to carry the stamp T0 (computed earlier, moved into place).
ResultFile(body) == [mtime |-> T0, open |-> FALSE, body |-> <<body>>]

\* request/<h>.json appears
DescriptorAppears(h, data) ==
    /\ BetweenTicks
    /\ <<h, JSON>> \notin DOMAIN dirRequest
    /\ dirRequest' = Put(dirRequest, <<h, JSON>>, [mtime |-> T0, data |-> data])
    /\ UNCHANGED <<now, s3, dirInfoResults, dirImageResults, pcRBH, batches,
                   rbh_seen_s3_lm, dirRBH, dirRBHDone, dirRBHBak, hist,
                   wkVars, reqVars, asVars, adVars, sideVars>>

\* inforesults/<h>.json appears, after the descriptor it was computed from
InfoResultAppears(h) ==
    /\ BetweenTicks
    /\ <<h, JSON>> \in DOMAIN dirRequest
    /\ <<h, JSON>> \notin DOMAIN dirInfoResults
    /\ dirInfoResults' = Put(dirInfoResults, <<h, JSON>>, ResultFile(h))
    /\ UNCHANGED <<now, s3, dirRequest, dirImageResults, pcRBH, batches,
                   rbh_seen_s3_lm, dirRBH, dirRBHDone, dirRBHBak, hist,
                   wkVars, reqVars, asVars, adVars, sideVars>>

\* imageresults/<icon base>.json appears, for the icon of a descriptor present
ImageResultAppears(h) ==
    /\ BetweenTicks
    /\ _icon_base_from_request(h) # <<>>
    /\ <<_icon_base_from_request(h)[1], JSON>> \notin DOMAIN dirImageResults
    /\ dirImageResults' = Put(dirImageResults,
                              <<_icon_base_from_request(h)[1], JSON>>,
                              ResultFile(_icon_base_from_request(h)[1]))
    /\ UNCHANGED <<now, s3, dirRequest, dirInfoResults, pcRBH, batches,
                   rbh_seen_s3_lm, dirRBH, dirRBHDone, dirRBHBak, hist,
                   wkVars, reqVars, asVars, adVars, sideVars>>

\* A second passes.
TimePasses ==
    /\ pcRBH = "sleep" \/ pcW = "sleep"
    /\ now + 1 <= MaxTime
    /\ now' = now + 1
    /\ UNCHANGED <<s3, dirRequest, dirInfoResults, dirImageResults, pcRBH,
                   batches, rbh_seen_s3_lm, dirRBH, dirRBHDone, dirRBHBak, hist,
                   wkVars, reqVars, asVars, adVars, sideVars>>

\* The process is held up between two ticks for as long as a batch may wait.
Stall ==
    /\ BetweenTicks
    /\ now <= MaxTime
    /\ now' = now + MAX_WAIT_SECONDS
    /\ UNCHANGED <<s3, dirRequest, dirInfoResults, dirImageResults, pcRBH,
                   batches, rbh_seen_s3_lm, dirRBH, dirRBHDone, dirRBHBak, hist,
                   wkVars, reqVars, asVars, adVars, sideVars>>

----------------------------------------------------------------------------
(* The batch worker: iconml_compare_byhash.py *)

POLL_INTERVAL == 3

\* S as a sequence, in the order in which the directory is listed
RECURSIVE SeqOf(_)
SeqOf(S) ==
    IF S = {} THEN <<>>
    ELSE LET x == CHOOSE y \in S : TRUE IN <<x>> \o SeqOf(S \ {x})

\* read_hashes_from_txt: the stripped lines that are neither blank nor
\* comments, in the order of the file, repetitions kept
RECURSIVE read_hashes_from_txt(_)
read_hashes_from_txt(body) ==
    IF body = <<>> THEN <<>>
    ELSE LET s == strip(Head(body))
         IN  (IF s = "" \/ startswith_hash(s) THEN <<>> ELSE <<s>>)
             \o read_hashes_from_txt(Tail(body))

\* A variant that takes a name only while seen_mtime does not know it.
stable_unseen_txts(dir, seen, grew) ==
    SelectSeq(SeqOf({f \in DOMAIN dir : f[2] = TXT}),
              LAMBDA f : /\ f \notin grew /\ dir[f].size > 0
                         /\ f \notin DOMAIN seen)

\* stable_new_txts: the *.txt files whose size is the same and nonzero before
\* and after STABLE_WAIT, and that are new or newer than seen_mtime records.
\* grew: the names to which a writer appends during the wait.
stable_new_txts(dir, seen, grew) ==
    LET s1(f) == dir[f].size
        s2(f) == dir[f].size + (IF f \in grew THEN 1 ELSE 0)
        t2(f) == dir[f].mtime
    IN  SelectSeq(SeqOf({f \in DOMAIN dir : f[2] = TXT}),
                  LAMBDA f : /\ s1(f) = s2(f) /\ s2(f) > 0
                             /\ (f \notin DOMAIN seen \/ t2(f) > seen[f]))

\* move_to_done: dst is <name>, or <base>_<int(time.time())><ext> when taken
move_to_done_dst(dir, name, t) ==
    IF name \in DOMAIN dir THEN <<name[1] \o "_" \o ToString(t), name[2]>>
    ELSE name

\* process_one_hash: oc is what the download and the extraction of the icon
\* come to for h.  The tuple returned, with the descriptor written to request/
\* (<<>>: none) and the icon moved to uploadimages/ (<<>>: none).
process_one_hash(h, oc, t) ==
    CASE oc = "success_ready" ->
            [hash |-> h, icon |-> IconOf(h), status |-> "success_ready",
             reason |-> "",
             req |-> << [mtime |-> t,
                         data |-> [ok |-> TRUE, icon_filename |-> IconOf(h)]] >>,
             up |-> {IconOf(h)}]
      [] oc = "info_only" ->
            [hash |-> h, icon |-> <<"", "">>, status |-> "info_only",
             reason |-> "no_icon_extracted",
             req |-> << [mtime |-> t,
                         data |-> [ok |-> TRUE, icon_filename |-> <<"", "">>]] >>,
             up |-> {}]
      [] OTHER ->
            [hash |-> h, icon |-> <<"", "">>, status |-> "failed",
             reason |-> "download_failed", req |-> <<>>, up |-> {}]

\* {h: icon for (h, icon) in pairs}: a key keeps the place of its first pair
\* and takes the value of its last one
RECURSIVE DictOf(_, _)
DictOf(pairs, acc) ==
    IF pairs = <<>> THEN acc
    ELSE LET p == Head(pairs)
             known == \E i \in DOMAIN acc : acc[i][1] = p[1]
         IN  DictOf(Tail(pairs),
                    IF known
                    THEN [i \in DOMAIN acc |-> IF acc[i][1] = p[1] THEN p ELSE acc[i]]
                    ELSE Append(acc, p))

\* The loop of process_txt_start over the hashes of the manifest.
\* bs: the BatchState; io = [req, up]: request/ and uploadimages/;
\* oc: what process_one_hash comes to, call by call.
RECURSIVE _start_from(_, _, _, _, _)
_start_from(hashes, bs, io, oc, t) ==
    IF hashes = <<>> THEN [bs |-> bs, io |-> io]
    ELSE LET r == process_one_hash(Head(hashes), Head(oc), t)
             io2 == [req |-> IF r.req = <<>> THEN io.req
                             ELSE Put(io.req, <<r.hash, JSON>>, r.req[1]),
                     up |-> io.up \cup r.up]
             bs2 == IF r.status = "success_ready" /\ r.icon # <<"", "">>
                    THEN [bs EXCEPT !.success_ready = Append(@, <<r.hash, r.icon>>)]
                    ELSE IF r.status = "info_only"
                    THEN [bs EXCEPT !.info_only = Append(@, r.hash)]
                    ELSE [bs EXCEPT !.failed = Append(@, <<r.hash, r.reason>>)]
         IN  _start_from(Tail(hashes), bs2, io2, Tail(oc), t)

ActiveKeys(ab) == {ab[i].key : i \in DOMAIN ab}

\* active_batches[name] = bs
SetActive(ab, bs) ==
    IF bs.key \in ActiveKeys(ab)
    THEN [i \in DOMAIN ab |-> IF ab[i].key = bs.key THEN bs ELSE ab[i]]
    ELSE Append(ab, bs)

\* process_txt_start, st = [seen, ab, req, up, done, src]
process_txt_start(st, txt, oc, t) ==
    LET hashes == read_hashes_from_txt(st.src[txt].body)
        bs0 == [key |-> txt[1], name |-> txt, start_ts |-> t,
                all_hashes |-> hashes, success_ready |-> <<>>,
                info_only |-> <<>>, failed |-> <<>>, remaining |-> <<>>]
        r == _start_from(hashes, bs0, [req |-> st.req, up |-> st.up], oc, t)
        bs == [r.bs EXCEPT !.remaining = DictOf(r.bs.success_ready, <<>>)]
    IN  [st EXCEPT !.ab = SetActive(st.ab, bs), !.req = r.io.req, !.up = r.io.up]

\* build_summary_text: the icon of the first pair of h (the loop breaks there)
icon_of_pair(pairs, h) ==
    IF \E i \in DOMAIN pairs : pairs[i][1] = h
    THEN pairs[CHOOSE i \in DOMAIN pairs :
                 /\ pairs[i][1] = h
                 /\ \A j \in 1..(i - 1) : pairs[j][1] # h][2]
    ELSE <<"", "">>

\* build_summary_text: the lines of the summary
build_summary_text(original_txt, success_hashes, pending_hashes, info_only_hashes, failed_hashes, all_hashes, success_ready_pairs) ==
    << <<"SUMMARY FOR:", original_txt>>, <<"TOTAL HASHES:", Len(all_hashes)>>,
       <<"">>, <<"[SUCCESS COMPLETED]", Len(success_hashes)>> >>
    \o [i \in 1..Len(success_hashes) |->
          <<"  - ", success_hashes[i],
            icon_of_pair(success_ready_pairs, success_hashes[i])>>]
    \o << <<"">>, <<"[PENDING_OR_TIMEOUT]", Len(pending_hashes)>> >>
    \o [i \in 1..Len(pending_hashes) |->
          <<"  - ", pending_hashes[i],
            icon_of_pair(success_ready_pairs, pending_hashes[i])>>]
    \o << <<"">>, <<"[INFO_ONLY_NO_ICON]", Len(info_only_hashes)>> >>
    \o [i \in 1..Len(info_only_hashes) |-> <<"  - ", info_only_hashes[i]>>]
    \o << <<"">>, <<"[FAILED_EARLY]", Len(failed_hashes)>> >>
    \o [i \in 1..Len(failed_hashes) |->
          <<"  - ", failed_hashes[i][1], failed_hashes[i][2]>>]
    \o << <<"">>, <<"NOTE:">> >>

\* One turn of the loop of main over new_txts.  A manifest that cannot be
\* opened makes process_txt_start raise, and read_hashes_from_txt raise again
\* in the handler: the iteration of the main loop ends there (st.err).
_scan_one(st, txt, oc, t) ==
    LET st1 == [st EXCEPT !.seen = Put(@, txt, st.src[txt].mtime)]
    IN  IF st.err THEN st
        ELSE IF ~st.src[txt].readable THEN [st1 EXCEPT !.err = TRUE]
        ELSE process_txt_start(st1, txt, oc, t)

RECURSIVE _scan_from(_, _, _, _)
_scan_from(txts, st, oc, t) ==
    IF txts = <<>> THEN st
    ELSE _scan_from(Tail(txts), _scan_one(st, Head(txts), oc, t), oc, t)

\* main: the head of an iteration, up to the call of tick_monitor
ScanTxts(oc, grew) ==
    /\ pcW = "scan"
    /\ LET seen == [f \in {g \in DOMAIN seen_mtime : g \in DOMAIN dirRBH}
                      |-> seen_mtime[f]]
           st == _scan_from(stable_new_txts(dirRBH, seen, grew),
                            [seen |-> seen, ab |-> active_batches,
                             req |-> dirRequest, up |-> dirUploadImages,
                             err |-> FALSE, src |-> dirRBH],
                            oc, now)
       IN  /\ seen_mtime' = st.seen
           /\ active_batches' = st.ab
           /\ dirRequest' = st.req
           /\ dirUploadImages' = st.up
           /\ pcW' = IF st.err THEN "sleep" ELSE "monitor"
    /\ UNCHANGED <<now, s3, dirInfoResults, dirImageResults, pcRBH, batches,
                   rbh_seen_s3_lm, dirRBH, dirRBHDone, dirRBHBak, hist,
                   pcReq, pending_inforesults, pending_imageresults,
                   seen_s3_lm_request, seen_local_inforesults_mtime,
                   seen_local_imageresults_mtime, dirBakInfoResults,
                   dirBakImageResults, asVars, adVars, sideVars>>

result_exists_for_hash(h) ==
    \/ <<h, JSON>> \in DOMAIN dirInfoResults
    \/ <<h, <<>>, JSON>> \in DOMAIN dirBakInfoResults

result_exists_for_icon(icon_filename) ==
    IF icon_filename = <<"", "">> THEN FALSE
    ELSE \/ <<icon_filename[1], JSON>> \in DOMAIN dirImageResults
         \/ <<icon_filename[1], <<>>, JSON>> \in DOMAIN dirBakImageResults

\* A variant that reports every monitored id as completed.
completed_of_all(success_ready, left) ==
    [i \in DOMAIN success_ready |-> success_ready[i][1]]

\* completed = [h for (h, _) in bs.success_ready if h not in bs.remaining]
completed_of(success_ready, left) ==
    SelectSeq([i \in DOMAIN success_ready |-> success_ready[i][1]],
              LAMBDA h : h \notin left)

\* One turn of the loop of tick_monitor, for one batch; st = [ab, done, src]
_monitor_one(st, bs, t) ==
    LET remaining == SelectSeq(bs.remaining,
                               LAMBDA p : ~(result_exists_for_hash(p[1])
                                            /\ result_exists_for_icon(p[2])))
        timeout == (t - bs.start_ts) > MAX_WAIT_SECONDS
        left == {remaining[i][1] : i \in DOMAIN remaining}
        completed == completed_of(bs.success_ready, left)
        pending == [i \in DOMAIN remaining |-> remaining[i][1]]
        summary == build_summary_text(bs.name, completed, pending, bs.info_only,
                                      bs.failed, bs.all_hashes, bs.success_ready)
        out == [kind |-> "summary", mtime |-> t, size |-> 1, open |-> FALSE,
                readable |-> TRUE, body |-> summary]
        bs2 == [bs EXCEPT !.remaining = remaining]
    IN  IF remaining = <<>> \/ timeout
        THEN [ab |-> SelectSeq(st.ab, LAMBDA b : b.key # bs.key),
              done |-> Put(st.done, bs.name, out),
              src |-> Del(st.src, bs.name)]
        ELSE [st EXCEPT !.ab = SetActive(@, bs2)]

RECURSIVE _monitor_from(_, _, _)
_monitor_from(items, st, t) ==
    IF items = <<>> THEN st
    ELSE _monitor_from(Tail(items), _monitor_one(st, Head(items), t), t)

\* tick_monitor
TickMonitor ==
    /\ pcW = "monitor"
    /\ LET st == _monitor_from(active_batches,
                               [ab |-> active_batches, done |-> dirRBHDone,
                                src |-> dirRBH], now)
       IN  /\ active_batches' = st.ab
           /\ dirRBHDone' = st.done
           /\ dirRBH' = st.src
    /\ pcW' = "sleep"
    /\ UNCHANGED <<now, s3, dirRequest, dirInfoResults, dirImageResults, pcRBH,
                   batches, rbh_seen_s3_lm, dirRBHBak, hist, seen_mtime, reqVars, asVars, adVars, sideVars>>

\* main: time.sleep(POLL_INTERVAL)
SleepW ==
    /\ pcW = "sleep"
    /\ now + POLL_INTERVAL <= MaxTime
    /\ now' = now + POLL_INTERVAL
    /\ pcW' = "scan"
    /\ UNCHANGED <<s3, dirRequest, dirInfoResults, dirImageResults, pcRBH,
                   batches, rbh_seen_s3_lm, dirRBH, dirRBHDone, dirRBHBak, hist,
                   seen_mtime, active_batches, reqVars, asVars, adVars, sideVars>>

\* What the download and the icon extraction come to, for the first, second
\* and third call of process_one_hash of a batch.
Outcomes ==
    {<<"success_ready", "success_ready", "success_ready">>,
     <<"success_ready", "info_only", "failed">>}

\* The manifests that reach requestbyhash/ when the worker runs by itself.
WorkerManifestBodies == {<<"A", "B", "C">>, <<"B", "A", "B">>, <<"#C", "  ">>}

\* A manifest is moved into requestbyhash/, written in full.
ManifestArrives(name, body) ==
    /\ pcW \in {"scan", "sleep"}
    /\ Lookup(hist.submits, name, 0) < MaxSubmits
    /\ dirRBH' = Put(dirRBH, name,
                     [kind |-> "manifest", mtime |-> now, size |-> Len(body),
                      open |-> FALSE, body |-> body, readable |-> TRUE])
    /\ hist' = [hist EXCEPT !.submits = Put(@, name, Lookup(@, name, 0) + 1)]
    /\ UNCHANGED <<now, s3, dirRequest, dirInfoResults, dirImageResults, pcRBH,
                   batches, rbh_seen_s3_lm, dirRBHDone, dirRBHBak,
                   wkVars, reqVars, asVars, adVars, sideVars>>

\* The batch worker and the request thread before their first step.
NoCall == [op |-> "none"]

InitAdapterIdle == call = NoCall

\* No client runs, neither worker beside the engine runs.
NoClient == [pc |-> "off"]
InitClientIdle == client = NoClient
InitSampleWIdle == sampleW = [pc |-> "off"]
InitImageWIdle == imageW = [pc |-> "off"]
InitSideIdle == InitClientIdle /\ InitSampleWIdle /\ InitImageWIdle

InitWorkerIdle ==
    /\ pcW = "off"
    /\ seen_mtime = Empty
    /\ active_batches = <<>>

InitReqIdle ==
    /\ pcReq = "off"
    /\ pending_inforesults = Empty
    /\ pending_imageresults = Empty
    /\ seen_s3_lm_request = Empty
    /\ seen_local_inforesults_mtime = Empty
    /\ seen_local_imageresults_mtime = Empty
    /\ dirUploadImages = {}
    /\ dirBakInfoResults = Empty
    /\ dirBakImageResults = Empty

InitASIdle ==
    /\ pcAS = "off"
    /\ as_seen_s3_lm = Empty
    /\ pending_names = Empty
    /\ dirASIn = Empty
    /\ dirASDone = Empty
    /\ dirASBak = Empty

InitRBH ==
    /\ now = T0
    /\ InitAdapterIdle
    /\ InitSideIdle
    /\ s3 = [k \in {<<S3_RBH, <<"", "">> >>, <<S3_RBH, <<"b1", ".tmp">> >>}
               |-> [lm |-> T0, body |-> <<>>]]
    /\ dirRequest = Empty
    /\ dirInfoResults = Empty
    /\ dirImageResults = Empty
    /\ pcRBH = "pull"
    /\ batches = <<>>
    /\ rbh_seen_s3_lm = Empty
    /\ dirRBH = Empty
    /\ dirRBHDone = Empty
    /\ dirRBHBak = Empty
    /\ hist = [submits |-> Empty, puts |-> Empty, restarts |-> 0,
               faults |-> 0, errors |-> Empty, pulls |-> Empty,
               fetches |-> Empty]
    /\ InitWorkerIdle
    /\ InitReqIdle
    /\ InitASIdle

\* The host runs the batch worker by itself.
InitWorker ==
    /\ now = T0
    /\ InitAdapterIdle
    /\ InitSideIdle
    /\ s3 = Empty
    /\ dirRequest = Empty
    /\ dirInfoResults = Empty
    /\ dirImageResults = Empty
    /\ pcRBH = "off"
    /\ batches = <<>>
    /\ rbh_seen_s3_lm = Empty
    /\ dirRBH = Empty
    /\ dirRBHDone = Empty
    /\ dirRBHBak = Empty
    /\ hist = [submits |-> Empty, puts |-> Empty, restarts |-> 0,
               faults |-> 0, errors |-> Empty, pulls |-> Empty,
               fetches |-> Empty]
    /\ pcW = "scan"
    /\ seen_mtime = Empty
    /\ active_batches = <<>>
    /\ InitReqIdle
    /\ InitASIdle

NextWorker ==
    \/ \E oc \in Outcomes : ScanTxts(oc, {})
    \/ TickMonitor
    \/ SleepW
    \/ \E name \in ManifestFiles, body \in WorkerManifestBodies :
          ManifestArrives(name, body)
    \/ \E h \in WorkedIds : InfoResultAppears(h)
    \/ \E h \in WorkedIds : ImageResultAppears(h)
    \/ TimePasses
    \/ Stall

SpecWorker == InitWorker /\ [][NextWorker]_vars

\* The host runs one of the two programs that keep batches.
InitBatch == InitRBH \/ InitWorker

NextRBH ==
    \/ PullBatches({}, {}, NoFaults)
    \/ \E ord \in Perms(Ids) : TryFinalizeBatches(ord, {}, NoFaults)
    \/ SleepRBH
    \/ \E name \in ManifestFiles, body \in ManifestBodies : ClientSubmit(name, body)
    \/ \E h \in WorkedIds : \E data \in DescriptorsOf(h) : DescriptorAppears(h, data)
    \/ \E h \in WorkedIds : InfoResultAppears(h)
    \/ \E h \in WorkedIds : ImageResultAppears(h)
    \/ TimePasses
    \/ Stall

SpecRBH == InitRBH /\ [][NextRBH]_vars

\* The client and the descriptors from elsewhere belong to the host of the
\* engine; the worker writes its descriptors itself.
NextBatch ==
    \/ PullBatches({}, {}, NoFaults)
    \/ \E ord \in Perms(Ids) : TryFinalizeBatches(ord, {}, NoFaults)
    \/ SleepRBH
    \/ \E name \in ManifestFiles, body \in ManifestBodies :
          pcRBH # "off" /\ ClientSubmit(name, body)
    \/ \E h \in WorkedIds : \E data \in DescriptorsOf(h) :
          pcRBH # "off" /\ DescriptorAppears(h, data)
    \/ \E oc \in Outcomes : ScanTxts(oc, {})
    \/ TickMonitor
    \/ SleepW
    \/ \E name \in ManifestFiles, body \in WorkerManifestBodies :
          ManifestArrives(name, body)
    \/ \E h \in WorkedIds : InfoResultAppears(h)
    \/ \E h \in WorkedIds : ImageResultAppears(h)
    \/ TimePasses
    \/ Stall

SpecBatch == InitBatch /\ [][NextBatch]_vars

----------------------------------------------------------------------------
(* RequestWatcher: the request pipeline of the engine *)

\* RequestTask (created_ts, which nothing reads, left out)
RequestTask(req_json_name, icon_filename) ==
    [req_json_name |-> req_json_name, icon_filename |-> icon_filename,
     icon_base_noext |-> icon_filename[1],
     s3_processing_key |-> <<S3_PROCESSING, req_json_name>>]

\* A descriptor that parses to a JSON object has .get; one that parses to a
\* list, a string or a number has not.
is_object(data) == "list" \notin DOMAIN data

\* One more transfer counted for key.
CountPut(puts, key) == Put(puts, key, Lookup(puts, key, 0) + 1)

\* A variant that finds no icon in uploadimages/.
exists_never(up, icon_filename) == FALSE

\* os.path.exists(icon_local)
exists_local(up, icon_filename) == icon_filename \in up

\* One turn of the loop of _handle_new_request_from_s3, for one listed key.
\* st = [s3, req, up, seen, pinfo, pimg, raised, fetch]; fetch counts the
\* downloads of an icon that wrote the file, per name; headFail, dlFail, mvFail:
\* the keys whose head_object, download_file, copy/delete raise ClientError
\* in this tick; flt.raise: the keys whose download_file raises another
\* exception; raised: an exception has left the handler.
_handle_one(st, key, t, headFail, dlFail, mvFail, flt) ==
    LET name == key[2]
        s3lm == IF key \in headFail THEN <<>>
                ELSE s3_head_last_modified_ts(st.s3, key)
        oldlm == Lookup(st.seen, name, 0)
        local_mtime == IF name \in DOMAIN st.req THEN st.req[name].mtime ELSE 0
        wanted == is_new_or_updated(s3lm, name \in DOMAIN st.req, local_mtime, oldlm)
        st1 == IF wanted
               THEN [st EXCEPT !.req = Put(@, name, [mtime |-> t,
                                                     data |-> st.s3[key].body]),
                               !.seen = Put(@, name,
                                            recorded_lm(s3lm, t))]
               ELSE st
        processing_key == <<S3_PROCESSING, name>>
        st2 == IF key \in mvFail \/ key \notin DOMAIN st1.s3 THEN st1
               ELSE [st1 EXCEPT !.s3 = s3_move(@, key, processing_key, t)]
        data == load_json(st2.req, name)
        icon_filename == data[1].icon_filename
        icon_key == <<S3_IMAGES, icon_filename>>
        st3 == IF ~exists_local(st2.up, icon_filename)
                  /\ icon_key \in DOMAIN st2.s3 /\ icon_key \notin dlFail
               THEN [st2 EXCEPT !.up = @ \cup {icon_filename},
                                !.fetch = CountPut(@, icon_filename)]
               ELSE st2
        task == RequestTask(name, icon_filename)
    IN  IF st.raised THEN st
        ELSE IF ~endswith_json(name) THEN st
        ELSE IF wanted /\ key \in dlFail THEN st
        ELSE IF wanted /\ key \in flt.raise THEN [st EXCEPT !.raised = TRUE]
        ELSE IF data = <<>> THEN st2
        ELSE IF ~is_object(data[1]) THEN [st2 EXCEPT !.raised = TRUE]
        ELSE IF icon_filename[1] = "" THEN st2
        ELSE IF ~exists_local(st2.up, icon_filename) /\ icon_key \in flt.raise
             THEN [st2 EXCEPT !.raised = TRUE]
        ELSE [st3 EXCEPT !.pinfo = Put(@, name, task),
                         !.pimg = Put(@, task.icon_base_noext, task)]

RECURSIVE _handle_from(_, _, _, _, _, _, _)
_handle_from(keys, st, t, headFail, dlFail, mvFail, flt) ==
    IF keys = <<>> THEN st
    ELSE _handle_from(Tail(keys),
                      _handle_one(st, Head(keys), t, headFail, dlFail, mvFail, flt),
                      t, headFail, dlFail, mvFail, flt)

\* The store after the objects of `keys` were removed by another of its users
without(store, keys) == [k \in DOMAIN store \ keys |-> store[k]]

\* RequestWatcher._handle_new_request_from_s3, and what run() does when an
\* exception leaves it.  vanished: the listed keys that are removed from the
\* store after the listing, before the handler comes to them.
HandleNewRequest(headFail, dlFail, mvFail, vanished, flt) ==
    /\ pcReq = "request"
    /\ LET st == _handle_from(s3_list_prefix(s3, S3_REQUEST),
                              [s3 |-> without(s3, vanished), req |-> dirRequest,
                               up |-> dirUploadImages,
                               seen |-> seen_s3_lm_request,
                               pinfo |-> pending_inforesults,
                               pimg |-> pending_imageresults,
                               raised |-> FALSE, fetch |-> hist.fetches],
                              now, headFail, dlFail, mvFail, flt)
       IN  /\ s3' = st.s3
           /\ dirRequest' = st.req
           /\ dirUploadImages' = st.up
           /\ seen_s3_lm_request' = st.seen
           /\ pending_inforesults' = st.pinfo
           /\ pending_imageresults' = st.pimg
           /\ pcReq' = IF st.raised THEN run_except("request") ELSE "scan_info"
           /\ now' = IF st.raised THEN now + ERROR_SLEEP ELSE now
           /\ hist' = count_error(
                         [hist EXCEPT !.faults =
                            IF headFail \cup dlFail \cup mvFail \cup vanished
                                 \cup flt.raise = {}
                            THEN @ ELSE @ + 1,
                                      !.fetches = st.fetch],
                         "REQ", st.raised)
    /\ now' <= MaxTime
    /\ UNCHANGED <<dirInfoResults, dirImageResults, pcRBH, batches,
                   rbh_seen_s3_lm, dirRBH, dirRBHDone, dirRBHBak, wkVars, asVars, adVars, sideVars,
                   seen_local_inforesults_mtime, seen_local_imageresults_mtime,
                   dirBakInfoResults, dirBakImageResults>>

----------------------------------------------------------------------------
(* RequestWatcher: delivery of the results.  The state threaded through a
   handler is st = [now, s3, dir, bak, pinfo, pimg, seenm, puts, crashed]:
   dir and bak are the result directory and the archive the handler works
   on, seenm its swept-mtime table, puts the count of uploads per key;
   crashed: the process was killed in this handler.
   upFail: the names whose upload raises ClientError; crash: <<>>, or <<f>>
   when the process is killed after the upload of f, before move_local.
   flt = [mv, raise]: the keys whose copy or deletion raises ClientError,
   the names whose upload raises an exception that is no ClientError;
   st.raised: such an exception has left the handler. *)

\* A variant that retires the whole task: both of its entries.
_dequeue_task(st, fname) ==
    [st EXCEPT !.pinfo = Del(@, fname),
               !.pimg = IF fname \in DOMAIN st.pinfo
                        THEN Del(@, st.pinfo[fname].icon_base_noext) ELSE @]

\* self.pending_inforesults.pop(fname, None)
_dequeue_info(st, fname) == [st EXCEPT !.pinfo = Del(@, fname)]

\* self.pending_imageresults.pop(base, None)
_dequeue_image(st, base) == [st EXCEPT !.pimg = Del(@, base)]

\* s3_upload of the local file, then move_local into the archive
_upload(st, prefix, fname) ==
    [st EXCEPT !.s3 = s3_upload(@, <<prefix, fname>>, st.dir[fname].body, st.now),
               !.puts = CountPut(@, <<prefix, fname>>)]

_archive(st, fname) ==
    [st EXCEPT !.bak = move_local(@, fname, [kind |-> "result"], st.now),
               !.dir = Del(@, fname),
               !.now = @ + MOVE_SLEEP]

\* One turn of the loop of _scan_local_inforesults
_scan_info_one(st, fname, need, grew, gone, upFail, crash, flt) ==
    LET t == st.pinfo[fname]
        st1 == _upload(st, S3_INFORESULTS, fname)
        st2 == IF t.s3_processing_key \in DOMAIN st1.s3
                  /\ t.s3_processing_key \notin flt.mv
               THEN [st1 EXCEPT !.s3 = s3_move(@, t.s3_processing_key,
                                               <<S3_PROCESSED, fname>>, st.now)]
               ELSE st1
    IN  IF st.crashed \/ st.raised THEN st
        ELSE IF ~endswith_json(fname) \/ fname \notin need THEN st
        ELSE IF ~file_is_stable(st.dir, fname, grew, gone) THEN st
        ELSE IF fname \notin DOMAIN st.pinfo THEN st
        ELSE IF fname \in upFail THEN st
        ELSE IF fname \in flt.raise THEN [st EXCEPT !.raised = TRUE]
        ELSE IF crash = <<fname>> THEN [st2 EXCEPT !.crashed = TRUE]
        ELSE _dequeue_info(_archive(st2, fname), fname)

\* One turn of the loop of _scan_local_imageresults
_scan_image_one(st, fname, need, grew, gone, upFail, crash, flt) ==
    LET base == fname[1]
        t == st.pimg[base]
        st1 == _upload(st, S3_IMAGERESULTS, fname)
        st2 == IF <<S3_IMAGES, t.icon_filename>> \in flt.mv THEN st1
               ELSE [st1 EXCEPT !.s3 = s3_delete(@, <<S3_IMAGES, t.icon_filename>>)]
    IN  IF st.crashed \/ st.raised THEN st
        ELSE IF ~endswith_json(fname) THEN st
        ELSE IF base \notin need THEN st
        ELSE IF ~file_is_stable(st.dir, fname, grew, gone) THEN st
        ELSE IF base \notin DOMAIN st.pimg THEN st
        ELSE IF fname \in upFail THEN st
        ELSE IF fname \in flt.raise THEN [st EXCEPT !.raised = TRUE]
        ELSE IF crash = <<fname>> THEN [st2 EXCEPT !.crashed = TRUE]
        ELSE _dequeue_image(_archive(st2, fname), base)

\* A variant that sweeps only the names it has swept before.
sweep_due_known(m, seen, fname) == fname \in DOMAIN seen /\ m > seen[fname]

\* A variant that sweeps a name once.
sweep_due_first(m, seen, fname) == fname \notin DOMAIN seen

\* m <= self.seen_local_..._mtime.get(fname, 0.0): continue
sweep_due(m, seen, fname) == m > Lookup(seen, fname, 0)

\* One turn of the loop of _sync_inforesults_incremental
_sync_info_one(st, fname, grew, gone, upFail, crash, flt) ==
    LET m == st.dir[fname].mtime
        st1 == _upload(st, S3_INFORESULTS, fname)
        st2 == [_archive(st1, fname) EXCEPT !.seenm = Put(@, fname, m)]
    IN  IF st.crashed \/ st.raised THEN st
        ELSE IF ~endswith_json(fname) THEN st
        ELSE IF ~file_is_stable(st.dir, fname, grew, gone) THEN st
        ELSE IF ~sweep_due(m, st.seenm, fname) THEN st
        ELSE IF fname \in upFail THEN st
        ELSE IF fname \in flt.raise THEN [st EXCEPT !.raised = TRUE]
        ELSE IF crash = <<fname>> THEN [st1 EXCEPT !.crashed = TRUE]
        ELSE _dequeue_info(st2, fname)

\* One turn of the loop of _sync_imageresults_incremental
_sync_image_one(st, fname, grew, gone, upFail, crash, flt) ==
    LET m == st.dir[fname].mtime
        st1 == _upload(st, S3_IMAGERESULTS, fname)
        st2 == [_archive(st1, fname) EXCEPT !.seenm = Put(@, fname, m)]
    IN  IF st.crashed \/ st.raised THEN st
        ELSE IF ~endswith_json(fname) THEN st
        ELSE IF ~file_is_stable(st.dir, fname, grew, gone) THEN st
        ELSE IF ~sweep_due(m, st.seenm, fname) THEN st
        ELSE IF fname \in upFail THEN st
        ELSE IF fname \in flt.raise THEN [st EXCEPT !.raised = TRUE]
        ELSE IF crash = <<fname>> THEN [st1 EXCEPT !.crashed = TRUE]
        ELSE _dequeue_image(st2, fname[1])

\* The loops over os.listdir: which names which handler
RECURSIVE _deliver_from(_, _, _, _, _, _, _, _, _)
_deliver_from(handler, names, st, need, grew, gone, upFail, crash, flt) ==
    IF names = <<>> THEN st
    ELSE LET f == Head(names)
             st1 == CASE handler = "scan_info" ->
                            _scan_info_one(st, f, need, grew, gone, upFail, crash, flt)
                      [] handler = "scan_image" ->
                            _scan_image_one(st, f, need, grew, gone, upFail, crash, flt)
                      [] handler = "sync_info" ->
                            _sync_info_one(st, f, grew, gone, upFail, crash, flt)
                      [] OTHER ->
                            _sync_image_one(st, f, grew, gone, upFail, crash, flt)
         IN  _deliver_from(handler, Tail(names), st1, need, grew, gone,
                           upFail, crash, flt)

\* What the writers and the other consumers did to the files that the handler
\* left in the directory: a name of grew has one more piece, a name of gone
\* is no longer there.
Settle(dir, grew, gone, t) ==
    [f \in DOMAIN dir \ gone |->
        IF f \in grew THEN [dir[f] EXCEPT !.body = Append(@, "more"), !.mtime = t]
        ELSE dir[f]]

----------------------------------------------------------------------------
(* RequestWatcher: the handlers of a tick *)

\* The tables of a RequestWatcher just constructed (RequestWatcher.__init__)
TablesEmpty ==
    /\ pending_inforesults' = Empty
    /\ pending_imageresults' = Empty
    /\ seen_s3_lm_request' = Empty
    /\ seen_local_inforesults_mtime' = Empty
    /\ seen_local_imageresults_mtime' = Empty

\* A handler of the info results (isInfo) or of the asset results runs from
\* pc `handler` to pc `next`; swept: it keeps a swept-mtime table.
DeliverStep(handler, next, isInfo, swept, grew, gone, upFail, crash, flt) ==
    LET dir == IF isInfo THEN dirInfoResults ELSE dirImageResults
        seenm == IF isInfo THEN seen_local_inforesults_mtime
                 ELSE seen_local_imageresults_mtime
        need == IF isInfo THEN DOMAIN pending_inforesults
                ELSE DOMAIN pending_imageresults
        st == _deliver_from(handler, listdir(dir),
                            [now |-> now, s3 |-> s3, dir |-> dir,
                             bak |-> IF isInfo THEN dirBakInfoResults
                                     ELSE dirBakImageResults,
                             pinfo |-> pending_inforesults,
                             pimg |-> pending_imageresults,
                             seenm |-> seenm, puts |-> hist.puts,
                             crashed |-> FALSE, raised |-> FALSE],
                            need, grew, gone, upFail, crash, flt)
        faults == IF upFail \cup flt.mv \cup flt.raise = {} THEN 0 ELSE 1
    IN  /\ pcReq = handler
        /\ grew \subseteq {f \in DOMAIN dir : dir[f].open
                                             /\ getsize(dir[f]) < MaxPieces}
        /\ gone \subseteq DOMAIN dir /\ grew \cap gone = {}
        /\ st.now <= MaxTime
        /\ crash # <<>> => (st.crashed /\ hist.restarts < MaxRestarts)
        /\ now' = IF st.crashed THEN st.now + RestartTime
                  ELSE IF st.raised THEN st.now + ERROR_SLEEP ELSE st.now
        /\ now' <= MaxTime
        /\ s3' = st.s3
        /\ IF isInfo
           THEN /\ dirInfoResults' = Settle(st.dir, grew, gone, now)
                /\ dirBakInfoResults' = st.bak
                /\ UNCHANGED <<dirImageResults, dirBakImageResults>>
           ELSE /\ dirImageResults' = Settle(st.dir, grew, gone, now)
                /\ dirBakImageResults' = st.bak
                /\ UNCHANGED <<dirInfoResults, dirBakInfoResults>>
        /\ IF st.crashed
           THEN /\ TablesEmpty
                /\ pcReq' = "request"
                /\ hist' = [hist EXCEPT !.puts = st.puts, !.restarts = @ + 1,
                                        !.faults = @ + faults]
           ELSE /\ pending_inforesults' = st.pinfo
                /\ pending_imageresults' = st.pimg
                /\ seen_local_inforesults_mtime' =
                      IF isInfo /\ swept THEN st.seenm
                      ELSE seen_local_inforesults_mtime
                /\ seen_local_imageresults_mtime' =
                      IF ~isInfo /\ swept THEN st.seenm
                      ELSE seen_local_imageresults_mtime
                /\ UNCHANGED seen_s3_lm_request
                /\ pcReq' = IF st.raised THEN run_except("request") ELSE next
                /\ hist' = count_error([hist EXCEPT !.puts = st.puts,
                                                    !.faults = @ + faults],
                                       "REQ", st.raised)
        /\ UNCHANGED <<dirRequest, dirUploadImages, pcRBH, batches,
                       rbh_seen_s3_lm, dirRBH, dirRBHDone, dirRBHBak, wkVars, asVars, adVars, sideVars>>

\* RequestWatcher._scan_local_inforesults
ScanLocalInforesults(grew, gone, upFail, crash, flt) ==
    DeliverStep("scan_info", "scan_image", TRUE, FALSE, grew, gone, upFail, crash, flt)

\* RequestWatcher._scan_local_imageresults
ScanLocalImageresults(grew, gone, upFail, crash, flt) ==
    DeliverStep("scan_image", "sync_info", FALSE, FALSE, grew, gone, upFail, crash, flt)

\* RequestWatcher._sync_inforesults_incremental
SyncInforesultsIncremental(grew, gone, upFail, crash, flt) ==
    DeliverStep("sync_info", "sync_image", TRUE, TRUE, grew, gone, upFail, crash, flt)

\* RequestWatcher._sync_imageresults_incremental
SyncImageresultsIncremental(grew, gone, upFail, crash, flt) ==
    DeliverStep("sync_image", "sleep", FALSE, TRUE, grew, gone, upFail, crash, flt)

\* The frame of a step that is not of the request thread's handlers
OthersIdle == UNCHANGED <<pcRBH, batches, rbh_seen_s3_lm, dirRBH, dirRBHDone,
                          dirRBHBak, wkVars, asVars, adVars, sideVars>>

\* RequestWatcher.run: the two sleeps that end a tick
SleepReq ==
    /\ pcReq = "sleep"
    /\ now + POLL_LOCAL_INTERVAL + POLL_S3_INTERVAL <= MaxTime
    /\ now' = now + POLL_LOCAL_INTERVAL + POLL_S3_INTERVAL
    /\ pcReq' = "request"
    /\ UNCHANGED <<s3, dirRequest, dirInfoResults, dirImageResults,
                   dirUploadImages, dirBakInfoResults, dirBakImageResults,
                   pending_inforesults, pending_imageresults,
                   seen_s3_lm_request, seen_local_inforesults_mtime,
                   seen_local_imageresults_mtime, hist>>
    /\ OthersIdle

\* The process is killed while it sleeps and started again: main, __init__.
Restart ==
    /\ pcReq = "sleep"
    /\ hist.restarts < MaxRestarts
    /\ TablesEmpty
    /\ pcReq' = "request"
    /\ hist' = [hist EXCEPT !.restarts = @ + 1]
    /\ now + RestartTime <= MaxTime
    /\ now' = now + RestartTime
    /\ UNCHANGED <<s3, dirRequest, dirInfoResults, dirImageResults,
                   dirUploadImages, dirBakInfoResults, dirBakImageResults>>
    /\ OthersIdle

----------------------------------------------------------------------------
(* The surroundings of the request pipeline: the client that sends requests,
   the services that write the results *)

RequestNames == {<<"A", JSON>>}

\* mode_icon_json: the icon goes to iconml/images/, the request after it
ClientRequest(name, data) ==
    /\ pcReq = "request"
    /\ Lookup(hist.submits, name, 0) < MaxRequests
    /\ s3' = s3_upload(IF data.icon_filename[1] = "" THEN s3
                       ELSE s3_upload(s3, <<S3_IMAGES, data.icon_filename>>,
                                      <<"icon">>, now),
                       <<S3_REQUEST, name>>, data, now)
    /\ hist' = [hist EXCEPT !.submits = Put(@, name, Lookup(@, name, 0) + 1)]
    /\ UNCHANGED <<now, dirRequest, dirInfoResults, dirImageResults,
                   dirUploadImages, dirBakInfoResults, dirBakImageResults,
                   pcReq, pending_inforesults, pending_imageresults,
                   seen_s3_lm_request, seen_local_inforesults_mtime,
                   seen_local_imageresults_mtime>>
    /\ OthersIdle

\* The time stamps of the results written elsewhere: not later than T0.
Stamps == {T0 - 1, T0}

\* The names under which results are put into inforesults/ and imageresults/
InfoNames == {<<"A", JSON>>, <<"A", ".tmp">>}
ImageNames == {<<"p", JSON>>}

ReqFrame == UNCHANGED <<now, s3, dirRequest, dirUploadImages, dirBakInfoResults,
                        dirBakImageResults, pcReq, pending_inforesults,
                        pending_imageresults, seen_s3_lm_request,
                        seen_local_inforesults_mtime,
                        seen_local_imageresults_mtime, hist>>

\* A result written elsewhere is moved into inforesults/: complete, with the
\* time stamp of its writing, m.
InfoResultPlaced(name, m) ==
    /\ pcReq = "request"
    /\ name \notin DOMAIN dirInfoResults
    /\ dirInfoResults' = Put(dirInfoResults, name,
                             [mtime |-> m, open |-> FALSE, body |-> <<name[1]>>])
    /\ UNCHANGED dirImageResults
    /\ ReqFrame /\ OthersIdle

ImageResultPlaced(name, m) ==
    /\ pcReq = "request"
    /\ name \notin DOMAIN dirImageResults
    /\ dirImageResults' = Put(dirImageResults, name,
                              [mtime |-> m, open |-> FALSE, body |-> <<name[1]>>])
    /\ UNCHANGED dirInfoResults
    /\ ReqFrame /\ OthersIdle

\* A service writes a result in place: open(path, "w"), write, close.
WriterOpens(name) ==
    /\ pcReq = "request"
    /\ name \notin DOMAIN dirInfoResults
    /\ dirInfoResults' = Put(dirInfoResults, name,
                             [mtime |-> now, open |-> TRUE, body |-> <<>>])
    /\ UNCHANGED dirImageResults
    /\ ReqFrame /\ OthersIdle

WriterCloses(name) ==
    /\ pcReq = "request"
    /\ name \in DOMAIN dirInfoResults
    /\ dirInfoResults[name].open
    /\ dirInfoResults' = [dirInfoResults EXCEPT ![name].open = FALSE]
    /\ UNCHANGED dirImageResults
    /\ ReqFrame /\ OthersIdle

\* The host runs the engine, of which the model follows the request thread.
InitReq ==
    /\ now = T0
    /\ InitAdapterIdle
    /\ InitSideIdle
    /\ s3 = Empty
    /\ dirRequest = Empty
    /\ dirInfoResults = Empty
    /\ dirImageResults = Empty
    /\ pcRBH = "off"
    /\ batches = <<>>
    /\ rbh_seen_s3_lm = Empty
    /\ dirRBH = Empty
    /\ dirRBHDone = Empty
    /\ dirRBHBak = Empty
    /\ hist = [submits |-> Empty, puts |-> Empty, restarts |-> 0,
               faults |-> 0, errors |-> Empty, pulls |-> Empty,
               fetches |-> Empty]
    /\ InitWorkerIdle
    /\ InitASIdle
    /\ pcReq = "request"
    /\ pending_inforesults = Empty
    /\ pending_imageresults = Empty
    /\ seen_s3_lm_request = Empty
    /\ seen_local_inforesults_mtime = Empty
    /\ seen_local_imageresults_mtime = Empty
    /\ dirUploadImages = {}
    /\ dirBakInfoResults = Empty
    /\ dirBakImageResults = Empty

\* What may happen to the files of a directory during a stability check
Disturbed(dir) ==
    {d \in [grew : SUBSET {f \in DOMAIN dir : dir[f].open},
            gone : SUBSET {f \in DOMAIN dir : dir[f].open}] :
        d.grew \cap d.gone = {} /\ Cardinality(d.grew \cup d.gone) <= 1}

Crashes(dir) == {<<>>} \cup {<<f>> : f \in DOMAIN dir}

NextReq ==
    \/ HandleNewRequest({}, {}, {}, {}, NoFaults)
    \/ \E d \in Disturbed(dirInfoResults) :
          ScanLocalInforesults(d.grew, d.gone, {}, <<>>, NoFaults)
    \/ \E d \in Disturbed(dirImageResults) :
          ScanLocalImageresults(d.grew, d.gone, {}, <<>>, NoFaults)
    \/ \E d \in Disturbed(dirInfoResults), crash \in Crashes(dirInfoResults) :
          SyncInforesultsIncremental(d.grew, d.gone, {}, crash, NoFaults)
    \/ \E d \in Disturbed(dirImageResults) :
          SyncImageresultsIncremental(d.grew, d.gone, {}, <<>>, NoFaults)
    \/ SleepReq
    \/ Restart
    \/ \E name \in RequestNames : \E data \in DescriptorsOf(name[1]) :
          ClientRequest(name, data)
    \/ \E name \in InfoNames, m \in Stamps : InfoResultPlaced(name, m)
    \/ \E name \in ImageNames, m \in Stamps : ImageResultPlaced(name, m)
    \/ WriterOpens(<<"A", JSON>>)
    \/ WriterCloses(<<"A", JSON>>)

SpecReq == InitReq /\ [][NextReq]_vars

----------------------------------------------------------------------------
(* AddSampleWatcher: the add-sample pipeline of the engine *)

\* A variant that notes the pending name before the download.
_as_pull_one_noted(st, key, t, headFail, dlFail, flt) ==
    LET name == key[2]
        s3lm == IF key \in headFail THEN <<>>
                ELSE s3_head_last_modified_ts(s3, key)
        old == Lookup(st.seen, name, 0)
        local_m == IF name \in DOMAIN st.dir THEN st.dir[name].mtime ELSE 0
    IN  IF st.raised THEN st
        ELSE IF name[2] # TXT THEN st
        ELSE IF key \in flt.raise THEN [st EXCEPT !.raised = TRUE]
        ELSE IF ~is_new_or_updated(s3lm, name \in DOMAIN st.dir, local_m, old)
        THEN st
        ELSE IF key \in dlFail
        THEN [st EXCEPT !.pending = Put(@, name, key)]
        ELSE [seen |-> Put(st.seen, name, recorded_lm(s3lm, t)),
              pending |-> Put(st.pending, name, key),
              dir |-> Put(st.dir, name,
                          [mtime |-> t, open |-> FALSE, body |-> s3[key].body]),
              raised |-> FALSE]

\* One turn of the loop of _pull_from_s3, for one listed key.
\* st = [seen, pending, dir]
_as_pull_one(st, key, t, headFail, dlFail, flt) ==
    LET name == key[2]
        s3lm == IF key \in headFail THEN <<>>
                ELSE s3_head_last_modified_ts(s3, key)
        old == Lookup(st.seen, name, 0)
        local_m == IF name \in DOMAIN st.dir THEN st.dir[name].mtime ELSE 0
    IN  IF st.raised THEN st
        ELSE IF name[2] # TXT THEN st
        ELSE IF key \in flt.raise THEN [st EXCEPT !.raised = TRUE]
        ELSE IF ~is_new_or_updated(s3lm, name \in DOMAIN st.dir, local_m, old)
        THEN st
        ELSE IF key \in dlFail THEN st
        ELSE [seen |-> Put(st.seen, name, recorded_lm(s3lm, t)),
              pending |-> Put(st.pending, name, key),
              dir |-> Put(st.dir, name,
                          [mtime |-> t, open |-> FALSE, body |-> s3[key].body]),
              raised |-> FALSE]

RECURSIVE _as_pull_from(_, _, _, _, _, _)
_as_pull_from(keys, st, t, headFail, dlFail, flt) ==
    IF keys = <<>> THEN st
    ELSE _as_pull_from(Tail(keys),
                       _as_pull_one(st, Head(keys), t, headFail, dlFail, flt),
                       t, headFail, dlFail, flt)

\* AddSampleWatcher._pull_from_s3; flt.raise: the keys whose head request
\* raises an exception that is no ClientError.
PullFromS3(headFail, dlFail, flt) ==
    /\ pcAS = "pull"
    /\ LET st == _as_pull_from(s3_list_prefix(s3, S3_AS_IN),
                               [seen |-> as_seen_s3_lm, pending |-> pending_names,
                                dir |-> dirASIn, raised |-> FALSE],
                               now, headFail, dlFail, flt)
       IN  /\ as_seen_s3_lm' = st.seen
           /\ pending_names' = st.pending
           /\ dirASIn' = st.dir
           /\ pcAS' = IF st.raised THEN run_except("pull") ELSE "scan"
           /\ now' = IF st.raised THEN now + ERROR_SLEEP ELSE now
           /\ st.raised => now + ERROR_SLEEP <= MaxTime
           /\ hist' = count_error([hist EXCEPT !.faults =
                                      @ + fault_count(flt, headFail \cup dlFail)],
                                  "AS", st.raised)
    /\ UNCHANGED <<s3, dirASDone, dirASBak>>
    /\ UNCHANGED <<dirRequest, dirInfoResults, dirImageResults, pcRBH, batches,
                   rbh_seen_s3_lm, dirRBH, dirRBHDone, dirRBHBak, wkVars, reqVars, adVars, sideVars>>

\* One turn of the loop of _scan_local_done.
\* st = [now, s3, done, inn, bak, pending]
_as_done_one(st, fname, need, grew, gone, upFail, flt) ==
    LET up == s3_upload(st.s3, <<S3_AS_DONE, fname>>, st.done[fname].body,
                        st.now)
        st1 == [st EXCEPT !.s3 = IF st.pending[fname] \in flt.mv THEN up
                                 ELSE s3_delete(up, st.pending[fname])]
        st2 == [st1 EXCEPT !.bak = move_local(@, fname, [kind |-> "done"], st.now),
                           !.done = Del(@, fname),
                           !.now = @ + MOVE_SLEEP]
        st3 == IF fname \in DOMAIN st2.inn
               THEN [st2 EXCEPT !.bak = move_local(@, fname, [kind |-> "sample"],
                                                   st2.now),
                                !.inn = Del(@, fname),
                                !.now = @ + MOVE_SLEEP]
               ELSE st2
    IN  IF st.raised THEN st
        ELSE IF fname[2] # TXT \/ fname \notin need THEN st
        ELSE IF ~file_is_stable(st.done, fname, grew, gone) THEN st
        ELSE IF fname \in upFail THEN st
        ELSE IF fname \in flt.raise THEN [st EXCEPT !.raised = TRUE]
        ELSE [st3 EXCEPT !.pending = Del(@, fname)]

RECURSIVE _as_done_from(_, _, _, _, _, _, _)
_as_done_from(names, st, need, grew, gone, upFail, flt) ==
    IF names = <<>> THEN st
    ELSE _as_done_from(Tail(names),
                       _as_done_one(st, Head(names), need, grew, gone, upFail,
                                    flt),
                       need, grew, gone, upFail, flt)

\* AddSampleWatcher._scan_local_done; upFail: the names whose upload raises
\* ClientError, flt.raise: those whose upload raises another exception,
\* flt.mv: the keys whose delete raises ClientError.
ScanLocalDone(grew, gone, upFail, flt) ==
    LET st == _as_done_from(listdir(dirASDone),
                            [now |-> now, s3 |-> s3, done |-> dirASDone,
                             inn |-> dirASIn, bak |-> dirASBak,
                             pending |-> pending_names, raised |-> FALSE],
                            DOMAIN pending_names, grew, gone, upFail, flt)
        t == IF st.raised THEN st.now + ERROR_SLEEP ELSE st.now
    IN  /\ pcAS = "scan"
        /\ grew \subseteq {f \in DOMAIN dirASDone : dirASDone[f].open}
        /\ gone \subseteq DOMAIN dirASDone /\ grew \cap gone = {}
        /\ t <= MaxTime
        /\ now' = t
        /\ s3' = st.s3
        /\ dirASDone' = Settle(st.done, grew, gone, now)
        /\ dirASIn' = st.inn
        /\ dirASBak' = st.bak
        /\ pending_names' = st.pending
        /\ pcAS' = IF st.raised THEN run_except("pull") ELSE "sleep"
        /\ hist' = count_error([hist EXCEPT !.faults =
                                   @ + fault_count(flt, upFail)],
                               "AS", st.raised)
        /\ UNCHANGED as_seen_s3_lm
        /\ UNCHANGED <<dirRequest, dirInfoResults, dirImageResults, pcRBH,
                       batches, rbh_seen_s3_lm, dirRBH, dirRBHDone, dirRBHBak,
                       wkVars, reqVars, adVars, sideVars>>

\* AddSampleWatcher.run: the two sleeps that end a tick
SleepAS ==
    /\ pcAS = "sleep"
    /\ now + POLL_LOCAL_INTERVAL + POLL_S3_INTERVAL <= MaxTime
    /\ now' = now + POLL_LOCAL_INTERVAL + POLL_S3_INTERVAL
    /\ pcAS' = "pull"
    /\ UNCHANGED <<s3, as_seen_s3_lm, pending_names, dirASIn, dirASDone,
                   dirASBak, hist>>
    /\ UNCHANGED <<dirRequest, dirInfoResults, dirImageResults, pcRBH, batches,
                   rbh_seen_s3_lm, dirRBH, dirRBHDone, dirRBHBak, wkVars, reqVars, adVars, sideVars>>

----------------------------------------------------------------------------
(* The surroundings of the add-sample pipeline: the client that uploads the
   lists, the processor (addsampleinfo.py) that works them off *)

SampleFiles == {<<"b1", TXT>>}
SampleBodies == {<<"A">>, <<"A", "B">>}

ASFrame == UNCHANGED <<dirRequest, dirInfoResults, dirImageResults, pcRBH,
                       batches, rbh_seen_s3_lm, dirRBH, dirRBHDone, dirRBHBak,
                       wkVars, reqVars, adVars, sideVars>>

\* The client uploads a list to iconml/addsamples/.
ClientAddSample(name, body) ==
    /\ pcAS # "off"
    /\ Lookup(hist.submits, name, 0) < MaxSubmits
    /\ s3' = s3_upload(s3, <<S3_AS_IN, name>>, body, now)
    /\ hist' = [hist EXCEPT !.submits = Put(@, name, Lookup(@, name, 0) + 1)]
    /\ UNCHANGED <<now, asVars, adVars, sideVars>>
    /\ ASFrame

\* The processor has worked a list off and moves it from addsamples/ to
\* addsampleprocessed/ (move_to_processed), between two handlers of the
\* engine.
SampleProcessed(name) ==
    /\ pcAS \in {"pull", "scan"}
    /\ name \in DOMAIN dirASIn
    /\ name \notin DOMAIN dirASDone
    /\ dirASDone' = Put(dirASDone, name, dirASIn[name])
    /\ dirASIn' = Del(dirASIn, name)
    /\ UNCHANGED <<now, s3, hist, pcAS, as_seen_s3_lm, pending_names, dirASBak>>
    /\ ASFrame

\* The host runs the engine, of which the model follows the addsample thread.
InitAS ==
    /\ now = T0
    /\ InitAdapterIdle
    /\ InitSideIdle
    /\ s3 = Empty
    /\ dirRequest = Empty
    /\ dirInfoResults = Empty
    /\ dirImageResults = Empty
    /\ pcRBH = "off"
    /\ batches = <<>>
    /\ rbh_seen_s3_lm = Empty
    /\ dirRBH = Empty
    /\ dirRBHDone = Empty
    /\ dirRBHBak = Empty
    /\ hist = [submits |-> Empty, puts |-> Empty, restarts |-> 0,
               faults |-> 0, errors |-> Empty, pulls |-> Empty,
               fetches |-> Empty]
    /\ InitWorkerIdle
    /\ InitReqIdle
    /\ pcAS = "pull"
    /\ as_seen_s3_lm = Empty
    /\ pending_names = Empty
    /\ dirASIn = Empty
    /\ dirASDone = Empty
    /\ dirASBak = Empty

\* The engine, of which the model follows either of the two threads that
\* pull lists of ids: requestbyhash or addsample.
InitPull == InitRBH \/ InitAS

NextPull ==
    \/ PullBatches({}, {}, NoFaults)
    \/ \E ord \in Perms(Ids) : TryFinalizeBatches(ord, {}, NoFaults)
    \/ SleepRBH
    \/ \E name \in ManifestFiles, body \in ManifestBodies :
          pcRBH # "off" /\ ClientSubmit(name, body)
    \/ \E h \in WorkedIds : \E data \in DescriptorsOf(h) :
          pcRBH # "off" /\ DescriptorAppears(h, data)
    \/ \E h \in WorkedIds : pcRBH # "off" /\ InfoResultAppears(h)
    \/ \E h \in WorkedIds : pcRBH # "off" /\ ImageResultAppears(h)
    \/ TimePasses
    \/ pcRBH # "off" /\ Stall
    \/ PullFromS3({}, {}, NoFaults)
    \/ ScanLocalDone({}, {}, {}, NoFaults)
    \/ SleepAS
    \/ \E name \in SampleFiles, body \in SampleBodies : ClientAddSample(name, body)
    \/ \E name \in SampleFiles : SampleProcessed(name)

SpecPull == InitPull /\ [][NextPull]_vars

----------------------------------------------------------------------------
(* Reading a summary back: the ids listed under a section header *)

HasSection(body, header) == \E i \in DOMAIN body : body[i][1] = header

HeaderAt(body, header) == CHOOSE i \in DOMAIN body : body[i][1] = header

RECURSIVE ItemsFrom(_, _)
ItemsFrom(body, i) ==
    IF i > Len(body) \/ body[i][1] # "  - " THEN <<>>
    ELSE <<body[i][2]>> \o ItemsFrom(body, i + 1)

Section(body, header) ==
    IF HasSection(body, header) THEN ItemsFrom(body, HeaderAt(body, header) + 1)
    ELSE <<>>

SectionCount(body, header) == body[HeaderAt(body, header)][2]

NoRepeat(q) == Cardinality(Range(q)) = Len(q)

DoneKey(name) == <<S3_RBH_DONE, name>>

\* The engine takes a finalize step; the worker takes a monitor step.
FinalizeStep == pcRBH = "finalize" /\ pcRBH' = "sleep"
MonitorStep == pcW = "monitor" /\ pcW' = "sleep"

\* Every member of the batch has its info result and its asset result.
Satisfied(hashes) ==
    \A h \in hashes : _info_exists_locally(h) /\ _image_exists_for_hash(h)

\* The seconds since the manifest of the batch was pulled.
Elapsed(name) == now - dirRBH[name].mtime

ManifestArchived ==
    {k \in DOMAIN dirRBHBak : dirRBHBak[k].kind = "manifest"}

----------------------------------------------------------------------------
(* The batch barrier *)

\* C1: at every finalize step of the engine, the summary of a batch is
\* produced (and the batch retired) if and only if every member has both
\* results locally or the deadline has elapsed since the batch was pulled.
C1_BarrierIff ==
    [][FinalizeStep =>
         \A i \in DOMAIN batches :
            (batches[i].name \notin BatchNames(batches'))
            <=> (\/ Satisfied(batches[i].hashes)
                 \/ Elapsed(batches[i].name) >= MAX_WAIT_SECONDS)]_vars

\* C3: a batch {A, B, C} with A and B satisfied and no descriptor of C is
\* finalized by the finalize step after the deadline, and its summary lists
\* A and B as completed (2) and C as pending (1).
C3_DeadlinePartial ==
    [][(/\ FinalizeStep
        /\ \E i \in DOMAIN batches :
              /\ batches[i].name = <<"b1", TXT>>
              /\ batches[i].hashes = {"A", "B", "C"}
        /\ Satisfied({"A", "B"})
        /\ <<"C", JSON>> \notin DOMAIN dirRequest
        /\ Elapsed(<<"b1", TXT>>) >= MAX_WAIT_SECONDS)
       => (/\ <<"b1", TXT>> \notin BatchNames(batches')
           /\ DoneKey(<<"b1", TXT>>) \in DOMAIN s3'
           /\ LET body == s3'[DoneKey(<<"b1", TXT>>)].body
              IN  /\ Range(Section(body, "[SUCCESS COMPLETED]")) = {"A", "B"}
                  /\ SectionCount(body, "[SUCCESS COMPLETED]") = 2
                  /\ Section(body, "[PENDING_OR_TIMEOUT]") = <<"C">>
                  /\ SectionCount(body, "[PENDING_OR_TIMEOUT]") = 1)]_vars

\* C4: a manifest submitted once, whose batch has been finalized and whose
\* local copy has been archived, is not pulled again: the pull step
\* downloads nothing and creates no batch.
C4_PulledOnce ==
    [][(/\ pcRBH = "pull" /\ pcRBH' = "finalize"
        /\ hist.submits = [n \in {<<"b1", TXT>>} |-> 1]
        /\ ManifestArchived # {})
       => (batches' = <<>> /\ dirRBH' = dirRBH)]_vars

----------------------------------------------------------------------------
(* The lists of a summary *)

Completed(body) == Section(body, "[SUCCESS COMPLETED]")
Pending(body) == Section(body, "[PENDING_OR_TIMEOUT]")
InfoOnly(body) == Section(body, "[INFO_ONLY_NO_ICON]")
FailedEarly(body) == Section(body, "[FAILED_EARLY]")

\* The completed and the pending list partition the set M.
Partition(body, M) ==
    /\ Range(Completed(body)) \cap Range(Pending(body)) = {}
    /\ Range(Completed(body)) \cup Range(Pending(body)) = M
    /\ NoRepeat(Completed(body) \o Pending(body))

\* The batches the step finalizes, with the summary it writes for each.
EngineSummaries ==
    {<<batches[i].hashes, s3'[DoneKey(batches[i].name)].body>> :
        i \in {j \in DOMAIN batches : batches[j].name \notin BatchNames(batches')}}

WorkerSummaries ==
    {<<active_batches[i], dirRBHDone'[active_batches[i].name].body>> :
        i \in {j \in DOMAIN active_batches :
                 active_batches[j].key \notin ActiveKeys(active_batches')}}

\* C2 as stated: in every summary produced, of the engine or of the worker,
\* the completed and the pending list partition the member set of the batch.
C2_PartitionAll ==
    [][/\ FinalizeStep => \A x \in EngineSummaries : Partition(x[2], x[1])
       /\ MonitorStep =>
            \A x \in WorkerSummaries : Partition(x[2], Range(x[1].all_hashes))]_vars

\* The lists of a summary of the worker, against the batch bs: no id is both
\* completed and pending; the two lists hold exactly the monitored ids, the
\* pending list each id once; every line of the manifest is accounted for in
\* one of the four lists.
WorkerLists(body, bs) ==
    LET monitored == {bs.success_ready[i][1] : i \in DOMAIN bs.success_ready}
        waiting == SelectSeq(bs.success_ready,
                             LAMBDA p : p[1] \in Range(Pending(body)))
    IN  /\ Range(Completed(body)) \cap Range(Pending(body)) = {}
        /\ Range(Completed(body)) \cup Range(Pending(body)) = monitored
        /\ NoRepeat(Pending(body))
        /\ Range(Completed(body)) \cup Range(Pending(body))
             \cup Range(InfoOnly(body)) \cup Range(FailedEarly(body))
           = Range(bs.all_hashes)
        /\ Len(Completed(body)) + Len(waiting) + Len(InfoOnly(body))
             + Len(FailedEarly(body)) = Len(bs.all_hashes)

\* C2, amended: the two lists of a summary of the engine partition the member
\* set; the two lists of a summary of the worker are disjoint and hold exactly
\* the monitored ids, the other lines being listed as info-only or failed.
C2_PartitionMonitored ==
    [][/\ FinalizeStep => \A x \in EngineSummaries : Partition(x[2], x[1])
       /\ MonitorStep => \A x \in WorkerSummaries : WorkerLists(x[2], x[1])]_vars

\* C2, the case: the worker has written a summary at the deadline, with ids
\* completed and ids pending.
C2_Witness ==
    /\ pcW = "sleep"
    /\ \E name \in DOMAIN dirRBHDone :
          /\ HasSection(dirRBHDone[name].body, "[FAILED_EARLY]")
          /\ Completed(dirRBHDone[name].body) # <<>>
          /\ Pending(dirRBHDone[name].body) # <<>>

----------------------------------------------------------------------------
(* Re-trigger by overwrite *)

\* A pull step of the batch pipeline, of the add-sample pipeline
PullStepRBH == pcRBH = "pull" /\ pcRBH' = "finalize"
PullStepAS == pcAS = "pull" /\ pcAS' = "scan"

\* C5: a manifest pulled and fully processed before (recorded in the watch
\* table, no batch or pending entry, no local copy) whose remote object is
\* newer than the watch table records is downloaded by the next pull step,
\* which records the new modification time and re-creates the batch from the
\* new content (batch pipeline) or the pending entry (add-sample pipeline).
C5_OverwriteRetrigger ==
    [][/\ PullStepRBH =>
            \A name \in ManifestFiles :
               (/\ <<S3_RBH, name>> \in DOMAIN s3
                /\ name \in DOMAIN rbh_seen_s3_lm
                /\ name \notin BatchNames(batches)
                /\ name \notin DOMAIN dirRBH
                /\ s3[<<S3_RBH, name>>].lm > rbh_seen_s3_lm[name])
               => (/\ name \in DOMAIN dirRBH'
                   /\ dirRBH'[name].body = s3[<<S3_RBH, name>>].body
                   /\ rbh_seen_s3_lm'[name] = s3[<<S3_RBH, name>>].lm
                   /\ name \in BatchNames(batches')
                   /\ BatchOf(batches', name).hashes
                        = read_lines(s3[<<S3_RBH, name>>].body))
       /\ PullStepAS =>
            \A name \in SampleFiles :
               (/\ <<S3_AS_IN, name>> \in DOMAIN s3
                /\ name \in DOMAIN as_seen_s3_lm
                /\ name \notin DOMAIN pending_names
                /\ name \notin DOMAIN dirASIn
                /\ s3[<<S3_AS_IN, name>>].lm > as_seen_s3_lm[name])
               => (/\ name \in DOMAIN dirASIn'
                   /\ dirASIn'[name].body = s3[<<S3_AS_IN, name>>].body
                   /\ as_seen_s3_lm'[name] = s3[<<S3_AS_IN, name>>].lm
                   /\ name \in DOMAIN pending_names'
                   /\ pending_names'[name] = <<S3_AS_IN, name>>)]_vars

\* C5, the case: a manifest archived at second t (so pulled and processed
\* before t) was replaced after t, and the pull step of this tick has
\* downloaded it, recorded its time and re-created its batch.
C5_Witness ==
    /\ pcRBH = "finalize"
    /\ \E name \in ManifestFiles :
          /\ \E k \in ManifestArchived :
                k[2] # <<>> /\ s3[<<S3_RBH, name>>].lm > k[2][1]
          /\ name \in BatchNames(batches)
          /\ name \in DOMAIN dirRBH /\ dirRBH[name].mtime = now
          /\ rbh_seen_s3_lm[name] = s3[<<S3_RBH, name>>].lm

----------------------------------------------------------------------------
(* The steps of the request thread and what they deliver *)

ScanInfoStep == pcReq = "scan_info" /\ pcReq' = "scan_image"
ScanImageStep == pcReq = "scan_image" /\ pcReq' = "sync_info"
SyncInfoStep == pcReq = "sync_info" /\ pcReq' = "sync_image"
SyncImageStep == pcReq = "sync_image" /\ pcReq' = "sleep"

InfoKey(f) == <<S3_INFORESULTS, f>>
ImageKey(f) == <<S3_IMAGERESULTS, f>>

\* The step uploads to key.
Uploaded(key) == Lookup(hist'.puts, key, 0) > Lookup(hist.puts, key, 0)

\* The step adds a copy of f to the archive.
ArchivedNow(bak, bakNext, f) ==
    \E k \in DOMAIN bakNext \ DOMAIN bak : k[1] = f[1] /\ k[3] = f[2]

\* The step delivers f: uploads its content to its key and archives it.
DeliveredInfo(f) ==
    /\ Uploaded(InfoKey(f))
    /\ s3'[InfoKey(f)].body = dirInfoResults[f].body
    /\ f \notin DOMAIN dirInfoResults'
    /\ ArchivedNow(dirBakInfoResults, dirBakInfoResults', f)

DeliveredImage(f) ==
    /\ Uploaded(ImageKey(f))
    /\ s3'[ImageKey(f)].body = dirImageResults[f].body
    /\ f \notin DOMAIN dirImageResults'
    /\ ArchivedNow(dirBakImageResults, dirBakImageResults', f)

\* A file written in full and not empty
Complete(file) == ~file.open /\ file.body # <<>>

\* The entries of table that the step removes, the others being as they were
Removed(table, tableNext) == DOMAIN table \ DOMAIN tableNext

OthersKept(table, tableNext) ==
    /\ DOMAIN tableNext \subseteq DOMAIN table
    /\ \A k \in DOMAIN tableNext : tableNext[k] = table[k]

----------------------------------------------------------------------------
(* Partial Task independence *)

\* C6: a step that delivers info results removes from the pending info table
\* the entries of the names it delivers and no other, and leaves the pending
\* asset table as it is; a step that delivers asset results removes the
\* entries of their bases and leaves the pending info table as it is.
C6_TaskIndependence ==
    [][/\ (ScanInfoStep \/ SyncInfoStep) =>
            /\ pending_imageresults' = pending_imageresults
            /\ OthersKept(pending_inforesults, pending_inforesults')
            /\ Removed(pending_inforesults, pending_inforesults')
                 = {f \in DOMAIN pending_inforesults : Uploaded(InfoKey(f))}
       /\ (ScanImageStep \/ SyncImageStep) =>
            /\ pending_inforesults' = pending_inforesults
            /\ OthersKept(pending_imageresults, pending_imageresults')
            /\ Removed(pending_imageresults, pending_imageresults')
                 = {b \in DOMAIN pending_imageresults :
                      Uploaded(ImageKey(<<b, JSON>>))}]_vars

\* C6, the case: the info result of the task of request A was delivered, its
\* asset result has not appeared, and the pending asset table holds the task.
C6_Witness ==
    /\ hist.restarts = 0
    /\ Lookup(hist.puts, InfoKey(<<"A", JSON>>), 0) > 0
    /\ <<"A", JSON>> \notin DOMAIN pending_inforesults
    /\ "p" \in DOMAIN pending_imageresults
    /\ pending_imageresults["p"].req_json_name = <<"A", JSON>>
    /\ <<"p", JSON>> \notin DOMAIN dirImageResults
    /\ Lookup(hist.puts, ImageKey(<<"p", JSON>>), 0) = 0

----------------------------------------------------------------------------
(* Restart backstop *)

\* C7: a sweep whose swept-mtime table is empty, as after a restart, delivers
\* every complete .json file of its directory, with or without a pending
\* entry.
C7_RestartBackstop ==
    [][/\ (SyncInfoStep /\ seen_local_inforesults_mtime = Empty) =>
            \A f \in DOMAIN dirInfoResults :
               (endswith_json(f) /\ Complete(dirInfoResults[f]))
               => DeliveredInfo(f)
       /\ (SyncImageStep /\ seen_local_imageresults_mtime = Empty) =>
            \A f \in DOMAIN dirImageResults :
               (endswith_json(f) /\ Complete(dirImageResults[f]))
               => DeliveredImage(f)]_vars

\* C7, the case: no request was ever made, the process has restarted, and
\* the sweep after the restart has made the only upload of inforesults/A.json
\* and archived it.
C7_Witness ==
    /\ hist.restarts = 1
    /\ hist.submits = Empty
    /\ pcReq = "sync_image"
    /\ <<"A", JSON>> \in DOMAIN seen_local_inforesults_mtime
    /\ Lookup(hist.puts, InfoKey(<<"A", JSON>>), 0) = 1
    /\ <<"A", <<>>, JSON>> \in DOMAIN dirBakInfoResults
    /\ <<"A", JSON>> \notin DOMAIN dirInfoResults

----------------------------------------------------------------------------
(* Stability *)

ResultKeys ==
    {InfoKey(f) : f \in DOMAIN dirInfoResults}
    \cup {ImageKey(f) : f \in DOMAIN dirImageResults}

LocalOf(key) ==
    IF key[1] = S3_INFORESULTS THEN dirInfoResults[key[2]]
    ELSE dirImageResults[key[2]]

\* C8: whatever a step uploads to a result key is the content of a local
\* file that is not empty and that no writer touched during the step; and a
\* file that vanishes or grows during the stability test is not uploaded, the
\* handler going on as if it were not there.
C8_StableUploads ==
    [][/\ \A key \in ResultKeys :
             Uploaded(key) =>
                /\ LocalOf(key).body # <<>>
                /\ s3'[key].body = LocalOf(key).body
                /\ key[2] \in DOMAIN dirInfoResults'
                     => dirInfoResults'[key[2]] = dirInfoResults[key[2]]
       /\ \A f \in DOMAIN dirInfoResults :
             (\/ f \notin DOMAIN dirInfoResults' /\ ~Uploaded(InfoKey(f))
              \/ f \in DOMAIN dirInfoResults'
                   /\ dirInfoResults'[f].body # dirInfoResults[f].body)
             => /\ ~Uploaded(InfoKey(f))
                /\ hist'.restarts = hist.restarts
                /\ pcReq' # pcReq]_vars

\* C8, the case: inforesults/A.json, awaited by a pending entry and still
\* open, held one piece, grew to two under a check and was left alone.
C8_Witness ==
    /\ <<"A", JSON>> \in DOMAIN dirInfoResults
    /\ dirInfoResults[<<"A", JSON>>].open
    /\ Len(dirInfoResults[<<"A", JSON>>].body) = 2
    /\ <<"A", JSON>> \in DOMAIN pending_inforesults
    /\ Lookup(hist.puts, InfoKey(<<"A", JSON>>), 0) = 0

----------------------------------------------------------------------------
(* Delivery by the next tick *)

\* C9 as stated: the sweep of a tick delivers every complete file of its
\* directory, whatever its name and whatever was delivered under it before.
C9_EveryCompleteFile ==
    [][/\ SyncInfoStep =>
            \A f \in DOMAIN dirInfoResults :
               Complete(dirInfoResults[f]) => DeliveredInfo(f)
       /\ SyncImageStep =>
            \A f \in DOMAIN dirImageResults :
               Complete(dirImageResults[f]) => DeliveredImage(f)]_vars

\* C9, amended: a tick delivers a complete file whose name ends in .json if a
\* pending entry awaits it (the scan) or if its modification time is later
\* than the one the sweep recorded for its name, none recorded counting as 0.
C9_DueFiles ==
    [][/\ ScanInfoStep =>
            \A f \in DOMAIN dirInfoResults :
               (/\ endswith_json(f) /\ Complete(dirInfoResults[f])
                /\ f \in DOMAIN pending_inforesults)
               => DeliveredInfo(f)
       /\ ScanImageStep =>
            \A f \in DOMAIN dirImageResults :
               (/\ endswith_json(f) /\ Complete(dirImageResults[f])
                /\ f[1] \in DOMAIN pending_imageresults)
               => DeliveredImage(f)
       /\ SyncInfoStep =>
            \A f \in DOMAIN dirInfoResults :
               (/\ endswith_json(f) /\ Complete(dirInfoResults[f])
                /\ dirInfoResults[f].mtime
                     > Lookup(seen_local_inforesults_mtime, f, 0))
               => DeliveredInfo(f)
       /\ SyncImageStep =>
            \A f \in DOMAIN dirImageResults :
               (/\ endswith_json(f) /\ Complete(dirImageResults[f])
                /\ dirImageResults[f].mtime
                     > Lookup(seen_local_imageresults_mtime, f, 0))
               => DeliveredImage(f)]_vars

\* C9, the case: without a restart, inforesults/A.json was delivered, put
\* there again with a later time stamp, and delivered again by the sweep.
C9_Witness ==
    /\ hist.restarts = 0
    /\ hist.submits = Empty
    /\ Lookup(hist.puts, InfoKey(<<"A", JSON>>), 0) = 2
    /\ Cardinality({k \in DOMAIN dirBakInfoResults :
                      k[1] = "A" /\ k[3] = JSON}) = 2
    /\ <<"A", JSON>> \notin DOMAIN dirInfoResults

----------------------------------------------------------------------------
(* Idempotent delivery *)

Content(store) == [k \in DOMAIN store |-> store[k].body]

\* C10: a sweep that uploads only artifacts whose keys hold their content
\* already leaves the store with the same keys and the same content per key.
C10_IdempotentUpload ==
    [][(/\ pcReq \in {"sync_info", "sync_image"}
        /\ \A key \in ResultKeys :
              Uploaded(key) => /\ key \in DOMAIN s3
                               /\ s3[key].body = LocalOf(key).body)
       => Content(s3') = Content(s3)]_vars

\* C10, the case: inforesults/A.json was uploaded, the process was killed
\* before it archived the file, and the sweep after the restart has uploaded
\* the file again and archived it.
C10_Witness ==
    /\ hist.restarts = 1
    /\ Lookup(hist.puts, InfoKey(<<"A", JSON>>), 0) = 2
    /\ Cardinality({k \in DOMAIN dirBakInfoResults :
                      k[1] = "A" /\ k[3] = JSON}) = 1
    /\ <<"A", JSON>> \notin DOMAIN dirInfoResults
    /\ s3[InfoKey(<<"A", JSON>>)].body = <<"A">>


----------------------------------------------------------------------------
(* The request pipeline with a store whose requests may fail, descriptors of
   every kind, and clients that send a descriptor more than once *)

MaxSends == 2       \* descriptors the clients send in a run
MaxFaults == 1      \* handlers of a run in which a request to the store fails

RequestNamesF == {<<"A", JSON>>, <<"B", JSON>>}

\* What a client may send as a descriptor: an object that names the icon p
\* or, for A, the icon q, an object without icon_filename, a text that is no
\* JSON, and a JSON list.
DescriptorsF(name) ==
    {[ok |-> TRUE, icon_filename |-> <<"p", ".png">>]}
    \cup (IF name = <<"A", JSON>>
          THEN {[ok |-> TRUE, icon_filename |-> <<"q", ".png">>],
                [ok |-> TRUE, icon_filename |-> <<"", "">>],
                [ok |-> FALSE, icon_filename |-> <<"", "">>],
                [ok |-> TRUE, icon_filename |-> <<"", "">>, list |-> TRUE]}
          ELSE {})

Sends == Lookup(hist.submits, <<"A", JSON>>, 0)
         + Lookup(hist.submits, <<"B", JSON>>, 0)

\* The service that computes the info result of a descriptor it finds in
\* request/ puts it into inforesults/.
InfoResultWritten(name) ==
    /\ name \in DOMAIN dirRequest
    /\ InfoResultPlaced(name, T0)

\* The comparison of the icon p puts its result into imageresults/.
ImageResultWritten(name) ==
    /\ \E n \in DOMAIN dirRequest : dirRequest[n].data.icon_filename[1] = name[1]
    /\ ImageResultPlaced(name, T0)

\* mode_icon_json, by any client, any number of times for a name
ClientSends(name, data) ==
    /\ pcReq = "request"
    /\ Sends < MaxSends
    /\ s3' = s3_upload(IF data.icon_filename[1] = "" THEN s3
                       ELSE s3_upload(s3, <<S3_IMAGES, data.icon_filename>>,
                                      <<"icon">>, now),
                       <<S3_REQUEST, name>>, data, now)
    /\ hist' = [hist EXCEPT !.submits = Put(@, name, Lookup(@, name, 0) + 1)]
    /\ UNCHANGED <<now, dirRequest, dirInfoResults, dirImageResults,
                   dirUploadImages, dirBakInfoResults, dirBakImageResults,
                   pcReq, pending_inforesults, pending_imageresults,
                   seen_s3_lm_request, seen_local_inforesults_mtime,
                   seen_local_imageresults_mtime>>
    /\ OthersIdle

\* The requests of one handler that fail: one at most.
\* head, dl, mv: keys whose head_object, download_file, copy or deletion
\* raise ClientError; van: listed keys removed before the handler reads them
HandleFaults ==
    LET keys == {k \in DOMAIN s3 : k[1] = S3_REQUEST}
        none == [head |-> {}, dl |-> {}, mv |-> {}, van |-> {}]
    IN  IF hist.faults >= MaxFaults THEN {none}
        ELSE {none}
        \cup {[none EXCEPT !.head = {k}] : k \in keys}
        \cup {[none EXCEPT !.dl = {k}] : k \in keys}
        \cup {[none EXCEPT !.mv = {k}] : k \in keys}
        \cup {[none EXCEPT !.van = {k}] : k \in keys}

\* up: names whose upload raises ClientError; raise: names whose upload
\* raises another exception; mv: keys whose copy or deletion raises.
DeliverFaults(dir) ==
    LET none == [up |-> {}, raise |-> {}, mv |-> {}]
    IN  IF hist.faults >= MaxFaults THEN {none}
        ELSE {none}
        \cup {[none EXCEPT !.up = {f}] : f \in DOMAIN dir}
        \cup {[none EXCEPT !.raise = {f}] : f \in DOMAIN dir}
        \cup {[none EXCEPT !.mv = {k}] :
                 k \in {k \in DOMAIN s3 : k[1] \in {S3_PROCESSING, S3_IMAGES}}}

NextReqF ==
    \/ \E f \in HandleFaults : HandleNewRequest(f.head, f.dl, f.mv, f.van, NoFaults)
    \/ \E f \in DeliverFaults(dirInfoResults) :
          ScanLocalInforesults({}, {}, f.up, <<>>, [mv |-> f.mv, raise |-> f.raise])
    \/ \E f \in DeliverFaults(dirImageResults) :
          ScanLocalImageresults({}, {}, f.up, <<>>, [mv |-> f.mv, raise |-> f.raise])
    \/ \E f \in DeliverFaults(dirInfoResults) :
          SyncInforesultsIncremental({}, {}, f.up, <<>>, [mv |-> f.mv, raise |-> f.raise])
    \/ \E f \in DeliverFaults(dirImageResults) :
          SyncImageresultsIncremental({}, {}, f.up, <<>>, [mv |-> f.mv, raise |-> f.raise])
    \/ SleepReq
    \/ \E name \in RequestNamesF : \E data \in DescriptorsF(name) :
          ClientSends(name, data)
    \/ \E name \in RequestNamesF : InfoResultWritten(name)
    \/ ImageResultWritten(<<"p", JSON>>)

SpecReqF == InitReq /\ [][NextReqF]_vars

----------------------------------------------------------------------------
(* The store adapter, one request to the store at a time.  A call of one of
   s3_list_prefix, s3_head_last_modified_ts, s3_download, s3_upload,
   s3_delete and s3_move is followed request by request: each request to
   the store succeeds or fails with ClientError, and the process may be
   killed between two requests. *)

PageSize == 2       \* keys of one page of list_objects_v2 (1000 at the store)

AdapterKeys == {<<S3_REQUEST, <<"", "">> >>, <<S3_REQUEST, <<"A", JSON>> >>,
                <<S3_REQUEST, <<"A", ".tmp">> >>, <<S3_REQUEST, <<"B", JSON>> >>,
                <<S3_REQUEST, <<"p", JSON>> >>, <<S3_PROCESSING, <<"A", JSON>> >>}

AdapterBodies == {<<"u">>, <<"v">>}

\* Position of a name in the order in which the store lists keys.
IndexOf(name) == CHOOSE i \in DOMAIN AllNames : AllNames[i] = name

\* One page of the listing of a prefix: the keys after the continuation
\* token, PageSize of them at most.
list_objects_v2(store, prefix, token) ==
    LET rest == SelectSeq([i \in DOMAIN AllNames |-> <<prefix, AllNames[i]>>],
                          LAMBDA k : k \in DOMAIN store /\ IndexOf(k[2]) > token)
        n    == IF Len(rest) > PageSize THEN PageSize ELSE Len(rest)
    IN  [Contents              |-> SubSeq(rest, 1, n),
         IsTruncated           |-> Len(rest) > n,
         NextContinuationToken |-> IF n = 0 THEN token ELSE IndexOf(rest[n][2])]

\* The requests s3_move makes, in order (mutant: the source first).
move_steps_delete_first(src_key, dst_key) ==
    IF src_key = dst_key THEN <<>> ELSE <<"delete", "copy">>

move_steps(src_key, dst_key) ==
    IF src_key = dst_key THEN <<>> ELSE <<"copy", "delete">>

\* The requests of the calls that make one request.
one_step(op) == <<op>>

CallBegin(op, src_key, dst_key) ==
    /\ call = NoCall
    /\ op \in {"head", "download", "upload", "delete", "move"}
    /\ op # "move" => dst_key = src_key
    /\ call' = [op |-> op, src |-> src_key, dst |-> dst_key, before |-> s3,
                steps |-> IF op = "move" THEN move_steps(src_key, dst_key)
                                         ELSE one_step(op),
                done |-> <<>>, failed |-> FALSE, result |-> <<>>,
                pc |-> "run"]
    /\ UNCHANGED <<now, s3, dirRequest, dirInfoResults, dirImageResults,
                   pcRBH, batches, rbh_seen_s3_lm, dirRBH, dirRBHDone,
                   dirRBHBak, wkVars, reqVars, asVars, hist, sideVars>>

\* How a request to the store ends: it succeeds, the store answers with an
\* error (botocore raises ClientError), or no answer is had (botocore raises
\* an exception that is no ClientError).
RequestOutcome == {"ok", "ClientError", "other"}

\* One request of the call in progress.  A request for a missing object
\* raises ClientError.  s3_head_last_modified_ts catches ClientError and
\* returns None; every other exception passes to the caller.
CallStep(out) ==
    /\ call.op \in {"head", "download", "upload", "delete", "move"}
    /\ call.pc = "run"
    /\ IF call.steps = <<>>
       THEN /\ call' = [call EXCEPT !.pc = "returned"]
            /\ s3' = s3
       ELSE LET step    == Head(call.steps)
                missing == /\ step \in {"head", "download", "copy"}
                           /\ call.src \notin DOMAIN s3
                err     == IF out # "ok" THEN out
                           ELSE IF missing THEN "ClientError" ELSE "ok"
            IN  IF err # "ok"
                THEN /\ s3' = s3
                     /\ call' = [call EXCEPT
                                     !.failed = (out # "ok"),
                                     !.pc = IF call.op = "head"
                                               /\ err = "ClientError"
                                            THEN "returned" ELSE "raised"]
                ELSE /\ s3' = CASE step = "copy" ->
                                     s3_copy(s3, call.src, call.dst, now)
                                [] step = "delete" -> s3_delete(s3, call.src)
                                [] step = "upload" ->
                                     s3_upload(s3, call.src, <<"u">>, now)
                                [] OTHER -> s3
                     /\ call' = [call EXCEPT
                                     !.steps = Tail(call.steps),
                                     !.done = Append(call.done, step),
                                     !.result = IF step = "head"
                                                THEN <<s3[call.src].lm>>
                                                ELSE call.result]
    /\ UNCHANGED <<now, dirRequest, dirInfoResults, dirImageResults,
                   pcRBH, batches, rbh_seen_s3_lm, dirRBH, dirRBHDone,
                   dirRBHBak, wkVars, reqVars, asVars, hist, sideVars>>

ListBegin(prefix) ==
    /\ call = NoCall
    /\ call' = [op |-> "list", prefix |-> prefix, token |-> 0, keys |-> <<>>,
                pages |-> 0, failed |-> FALSE, pc |-> "run"]
    /\ UNCHANGED <<now, s3, dirRequest, dirInfoResults, dirImageResults,
                   pcRBH, batches, rbh_seen_s3_lm, dirRBH, dirRBHDone,
                   dirRBHBak, wkVars, reqVars, asVars, hist, sideVars>>

\* One page of s3_list_prefix: on ClientError the error is logged and the
\* keys gathered so far are returned.
ListPage(out) ==
    /\ call.op = "list"
    /\ call.pc = "run"
    /\ IF out # "ok"
       THEN call' = [call EXCEPT !.failed = TRUE,
                                 !.pc = IF out = "ClientError" THEN "returned"
                                                               ELSE "raised"]
       ELSE LET resp == list_objects_v2(s3, call.prefix, call.token)
                keys == SelectSeq(resp.Contents, LAMBDA k : k[2] # <<"", "">>)
            IN  call' = [call EXCEPT
                             !.keys = call.keys \o keys,
                             !.pages = call.pages + 1,
                             !.token = resp.NextContinuationToken,
                             !.pc = IF resp.IsTruncated THEN "run"
                                                        ELSE "returned"]
    /\ UNCHANGED <<now, s3, dirRequest, dirInfoResults, dirImageResults,
                   pcRBH, batches, rbh_seen_s3_lm, dirRBH, dirRBHDone,
                   dirRBHBak, wkVars, reqVars, asVars, hist, sideVars>>

\* The process is killed between two requests of a call.
CallKilled ==
    /\ call # NoCall
    /\ call.pc = "run"
    /\ call' = [call EXCEPT !.pc = "killed"]
    /\ UNCHANGED <<now, s3, dirRequest, dirInfoResults, dirImageResults,
                   pcRBH, batches, rbh_seen_s3_lm, dirRBH, dirRBHDone,
                   dirRBHBak, wkVars, reqVars, asVars, hist, sideVars>>

\* The call is over: its result or its exception has reached the caller.
CallEnds ==
    /\ call # NoCall
    /\ call.pc \in {"returned", "raised", "killed"}
    /\ call' = NoCall
    /\ UNCHANGED <<now, s3, dirRequest, dirInfoResults, dirImageResults,
                   pcRBH, batches, rbh_seen_s3_lm, dirRBH, dirRBHDone,
                   dirRBHBak, wkVars, reqVars, asVars, hist, sideVars>>

\* Between two calls a client of the store puts an object.
ClientPuts(key, body) ==
    /\ call = NoCall
    /\ pcRBH = "off" /\ pcW = "off" /\ pcReq = "off" /\ pcAS = "off"
    /\ s3' = s3_upload(s3, key, body, now)
    /\ UNCHANGED <<now, call, dirRequest, dirInfoResults, dirImageResults,
                   pcRBH, batches, rbh_seen_s3_lm, dirRBH, dirRBHDone,
                   dirRBHBak, wkVars, reqVars, asVars, hist, sideVars>>

InitAdapter ==
    /\ now = T0
    /\ InitAdapterIdle
    /\ InitSideIdle
    /\ s3 = Empty
    /\ dirRequest = Empty
    /\ dirInfoResults = Empty
    /\ dirImageResults = Empty
    /\ pcRBH = "off"
    /\ batches = <<>>
    /\ rbh_seen_s3_lm = Empty
    /\ dirRBH = Empty
    /\ dirRBHDone = Empty
    /\ dirRBHBak = Empty
    /\ hist = [submits |-> Empty, puts |-> Empty, restarts |-> 0,
               faults |-> 0, errors |-> Empty, pulls |-> Empty,
               fetches |-> Empty]
    /\ InitWorkerIdle
    /\ InitReqIdle
    /\ InitASIdle

NextAdapter ==
    \/ \E op \in {"head", "download", "upload", "delete", "move"} :
          \E src_key \in AdapterKeys, dst_key \in AdapterKeys :
             CallBegin(op, src_key, dst_key)
    \/ \E out \in RequestOutcome : CallStep(out)
    \/ \E prefix \in {S3_REQUEST, S3_PROCESSING} : ListBegin(prefix)
    \/ \E out \in RequestOutcome : ListPage(out)
    \/ CallKilled
    \/ CallEnds
    \/ \E key \in AdapterKeys, body \in AdapterBodies : ClientPuts(key, body)

SpecAdapter == InitAdapter /\ [][NextAdapter]_vars

\* ---- C11 ----------------------------------------------------------------

\* C11: during and after a call of s3_move for an existing object, whether
\* it returns, raises at the copy or at the deletion, or the process is
\* killed between the two requests, the object is at the source key or at
\* the destination key; the source key is gone only after the copy was made;
\* a move of a key to itself leaves the store as it was; and a move that
\* returns has done what s3_move(src, dst) is.
C11_MoveKeepsObject ==
    (call.op = "move" /\ call.src \in DOMAIN call.before) =>
        LET obj == call.before[call.src].body
            at(key) == key \in DOMAIN s3 /\ s3[key].body = obj
        IN  /\ at(call.src) \/ at(call.dst)
            /\ call.src \notin DOMAIN s3 =>
                   (Len(call.done) >= 1 /\ call.done[1] = "copy" /\ at(call.dst))
            /\ call.src = call.dst => s3 = call.before
            /\ call.pc = "returned" =>
                   s3 = s3_move(call.before, call.src, call.dst, now)

\* C11 witness: the process was killed between the copy and the deletion of
\* a move of an existing object to another key.
C11_Witness ==
    /\ call.op = "move" /\ call.pc = "killed"
    /\ call.src # call.dst
    /\ call.src \in DOMAIN call.before
    /\ call.done = <<"copy">>
    /\ call.src \in DOMAIN s3 /\ call.dst \in DOMAIN s3


\* ---- C12 ----------------------------------------------------------------

\* C12: the list a call of s3_list_prefix returns holds every key under the
\* prefix that does not end in "/", in the order of the store, whatever the
\* number of pages: it is never a part only of those keys.
C12_ListComplete ==
    (call.op = "list" /\ call.pc = "returned") =>
        call.keys = s3_list_prefix(s3, call.prefix)


\* ---- C13 ----------------------------------------------------------------

\* C13: a call of the adapter one of whose requests failed (the store
\* answered with an error, or did not answer) ends by raising to the
\* pipeline that made it; it does not return a result.
C13_FailureRaises ==
    (call # NoCall /\ call.pc = "returned") => ~call.failed


\* ---- C14 ----------------------------------------------------------------

\* The handler of new requests runs and finds the listed key gone.
HandleFindsAbsent(key) ==
    /\ key \in DOMAIN s3
    /\ HandleNewRequest({}, {}, {}, {key}, NoFaults)

\* The step leaves no trace of the descriptor `name`: no download, no entry
\* of the watch table, no Task in either table that was not there before.
NoTraceOf(name) ==
    /\ name \in DOMAIN dirRequest' =>
          (name \in DOMAIN dirRequest /\ dirRequest'[name] = dirRequest[name])
    /\ name \in DOMAIN seen_s3_lm_request' =>
          (name \in DOMAIN seen_s3_lm_request
           /\ seen_s3_lm_request'[name] = seen_s3_lm_request[name])
    /\ name \in DOMAIN pending_inforesults' =>
          (name \in DOMAIN pending_inforesults
           /\ pending_inforesults'[name] = pending_inforesults[name])
    /\ \A b \in DOMAIN pending_imageresults' :
          pending_imageresults'[b].req_json_name = name =>
              (b \in DOMAIN pending_imageresults
               /\ pending_imageresults'[b] = pending_imageresults[b])

\* C14: when a key listed under iconml/request/ is gone by the time the
\* handler asks for its modification time, the handler downloads nothing
\* for it, records nothing in seen_s3_lm_request and creates no Task and no
\* pending entry from it in that tick.
C14_AbsentKeyIgnored ==
    [][\A name \in RequestNamesF :
          HandleFindsAbsent(<<S3_REQUEST, name>>) => NoTraceOf(name)]_vars


\* ---- C15 ----------------------------------------------------------------

\* The pull step downloads the manifest `name` (batch pipeline), the list
\* `name` (add-sample pipeline): its local copy is written in this second.
PulledRBH(name) ==
    /\ name \in DOMAIN dirRBH' /\ dirRBH'[name].mtime = now
    /\ ~(name \in DOMAIN dirRBH /\ dirRBH[name].mtime = now)

PulledAS(name) ==
    /\ name \in DOMAIN dirASIn' /\ dirASIn'[name].mtime = now
    /\ ~(name \in DOMAIN dirASIn /\ dirASIn[name].mtime = now)

\* The key was never recorded in the watch table `seen`, or the store has it
\* later than recorded by more than the tolerance.
NewOrChanged(seen, key) ==
    \/ key[2] \notin DOMAIN seen
    \/ s3[key].lm > seen[key[2]] + LM_TOLERANCE

\* C15: in a pull step a listed key is downloaded if and only if it was
\* never recorded in the watch table of the pipeline or its modification
\* time exceeds the recorded one by more than one second; the local
\* directories do not matter.
C15_PullIffNewOrChanged ==
    [][/\ PullStepRBH =>
            \A name \in ManifestFiles :
               <<S3_RBH, name>> \in DOMAIN s3 =>
                  (PulledRBH(name) <=> NewOrChanged(rbh_seen_s3_lm, <<S3_RBH, name>>))
       /\ PullStepAS =>
            \A name \in SampleFiles :
               <<S3_AS_IN, name>> \in DOMAIN s3 =>
                  (PulledAS(name) <=> NewOrChanged(as_seen_s3_lm, <<S3_AS_IN, name>>))]_vars


\* ---- C16 ----------------------------------------------------------------

\* The engine, of which the model follows one of its three threads.
InitEngine == InitRBH \/ InitAS \/ InitReq

NextEngine == NextPull \/ NextReq

SpecEngine == InitEngine /\ [][NextEngine]_vars

\* In this step the watch table keeps every entry it has, none with a
\* smaller value, and an entry it gains is the time the store has for the key.
Monotone(seen, seenNext, prefix) ==
    /\ \A name \in DOMAIN seen :
          name \in DOMAIN seenNext /\ seenNext[name] >= seen[name]
    /\ \A name \in DOMAIN seenNext \ DOMAIN seen :
          /\ <<prefix, name>> \in DOMAIN s3
          /\ seenNext[name] = s3[<<prefix, name>>].lm

\* C16: while the process runs, the time recorded for a key in the watch
\* table of each of the three pipelines never decreases: an entry is made
\* by the first pull of the key, with the time the store has for it, and is
\* afterwards replaced only by a value that is not smaller.
C16_WatchTableMonotone ==
    [][hist'.restarts = hist.restarts =>
          /\ Monotone(rbh_seen_s3_lm, rbh_seen_s3_lm', S3_RBH)
          /\ Monotone(as_seen_s3_lm, as_seen_s3_lm', S3_AS_IN)
          /\ Monotone(seen_s3_lm_request, seen_s3_lm_request', S3_REQUEST)]_vars

\* C16 witness: the batch pipeline has replaced an entry of its watch table
\* by a later time: the manifest, pulled and archived before, was uploaded
\* again and is pulled in this tick.
C16_Witness ==
    \E name \in DOMAIN rbh_seen_s3_lm :
       /\ pcRBH = "finalize"
       /\ Lookup(hist.submits, name, 0) = 2
       /\ rbh_seen_s3_lm[name] = now
       /\ rbh_seen_s3_lm[name] = s3[<<S3_RBH, name>>].lm
       /\ \E k \in ManifestArchived : k[2] # <<>> /\ k[2][1] < now


\* ---- C17 ----------------------------------------------------------------

\* The Tasks that are live: those a pending table refers to.
TasksOf(table) == {table[k] : k \in DOMAIN table}

LiveTasks == TasksOf(pending_inforesults) \cup TasksOf(pending_imageresults)

\* C17: in every state of the request pipeline there is one Task for each
\* descriptor name that has one (a descriptor observed again replaces its
\* Task), the info slot of a Task is the entry under its name, and its
\* asset slot is the entry under the base name of its icon, one at most.
C17_OneTaskPerDescriptor ==
    /\ \A t1 \in LiveTasks, t2 \in LiveTasks :
          t1.req_json_name = t2.req_json_name => t1 = t2
    /\ \A name \in DOMAIN pending_inforesults :
          pending_inforesults[name].req_json_name = name
    /\ \A base \in DOMAIN pending_imageresults :
          pending_imageresults[base].icon_base_noext = base


\* ---- C18 ----------------------------------------------------------------

\* A handler of the info results runs, and the upload of f fails in it: with
\* ClientError, or with another exception.
InfoUploadFails(f) ==
    \/ ScanLocalInforesults({}, {}, {f}, <<>>, NoFaults)
    \/ ScanLocalInforesults({}, {}, {}, <<>>, [mv |-> {}, raise |-> {f}])
    \/ SyncInforesultsIncremental({}, {}, {f}, <<>>, NoFaults)
    \/ SyncInforesultsIncremental({}, {}, {}, <<>>, [mv |-> {}, raise |-> {f}])

\* The info result g is one the handler at pcReq delivers in this tick.
DueInfo(g) ==
    /\ g \in DOMAIN dirInfoResults
    /\ endswith_json(g)
    /\ IF pcReq = "scan_info" THEN g \in DOMAIN pending_inforesults
       ELSE sweep_due(dirInfoResults[g].mtime, seen_local_inforesults_mtime, g)

\* C18: when the upload of an info result fails, the file stays in
\* inforesults/ and is not archived, its slot stays pending, the asset
\* slots and the other Tasks are as before, the handler goes on to the other
\* files of the directory (every other due file is uploaded and archived in
\* this tick), and the file is still due at the next tick.
C18_UploadFailureIsolated ==
    [][\A f \in RequestNamesF :
          (DueInfo(f) /\ InfoUploadFails(f)) =>
             /\ f \in DOMAIN dirInfoResults'
             /\ dirInfoResults'[f] = dirInfoResults[f]
             /\ dirBakInfoResults' = dirBakInfoResults
                  \/ \E g \in RequestNamesF \ {f} : DueInfo(g)
             /\ f \in DOMAIN pending_inforesults =>
                   (/\ f \in DOMAIN pending_inforesults'
                    /\ pending_inforesults'[f] = pending_inforesults[f])
             /\ pending_imageresults' = pending_imageresults
             /\ \A g \in RequestNamesF \ {f} :
                   DueInfo(g) => (/\ Uploaded(InfoKey(g))
                                  /\ g \notin DOMAIN dirInfoResults')]_vars


\* ---- C19 ----------------------------------------------------------------

\* _scan_local_inforesults delivers the info result `name` and the move of
\* its descriptor from processing/ to processed/ raises ClientError;
\* _scan_local_imageresults delivers the asset result of `t` and the
\* deletion of its icon raises ClientError.
MoveFails(name) ==
    /\ DueInfo(name) /\ pcReq = "scan_info"
    /\ <<S3_PROCESSING, name>> \in DOMAIN s3
    /\ ScanLocalInforesults({}, {}, {}, <<>>,
                            [mv |-> {<<S3_PROCESSING, name>>}, raise |-> {}])

DeleteFails(t) ==
    /\ pcReq = "scan_image"
    /\ <<t.icon_base_noext, JSON>> \in DOMAIN dirImageResults
    /\ <<S3_IMAGES, t.icon_filename>> \in DOMAIN s3
    /\ ScanLocalImageresults({}, {}, {}, <<>>,
                             [mv |-> {<<S3_IMAGES, t.icon_filename>>}, raise |-> {}])

\* C19: after a delivery in which the move of the descriptor to processed/
\* (the deletion of the icon) failed, the engine still holds what a later
\* tick needs to attempt it again: the pending slot of the Task, which
\* carries the key, and the result file that makes the handler come to it.
C19_FailedMoveRetried ==
    [][/\ \A name \in RequestNamesF :
             MoveFails(name) =>
                (/\ name \in DOMAIN pending_inforesults'
                 /\ name \in DOMAIN dirInfoResults')
       /\ \A t \in TasksOf(pending_imageresults) :
             DeleteFails(t) =>
                (/\ t.icon_base_noext \in DOMAIN pending_imageresults'
                 /\ <<t.icon_base_noext, JSON>> \in DOMAIN dirImageResults')]_vars


\* ---- C20 ----------------------------------------------------------------

\* The descriptor under iconml/request/<name> is malformed: it does not
\* parse to a non-empty object that names an icon.
Malformed(name) ==
    LET d == s3[<<S3_REQUEST, name>>].body
    IN  ~d.ok \/ ~is_object(d) \/ d.icon_filename[1] = ""

\* The handler of new requests runs with every request to the store
\* succeeding.
HandleStep == HandleNewRequest({}, {}, {}, {}, NoFaults)

\* C20: a malformed descriptor makes no Task and no pending entry, and every
\* other descriptor listed in the same tick is downloaded, moved to
\* processing/ and enqueued as it would be without the malformed one.
C20_MalformedIsolated ==
    [][\A bad \in RequestNamesF :
          (/\ HandleStep
           /\ <<S3_REQUEST, bad>> \in DOMAIN s3
           /\ Malformed(bad)) =>
             /\ bad \notin DOMAIN pending_inforesults'
                  \/ (/\ bad \in DOMAIN pending_inforesults
                      /\ pending_inforesults'[bad] = pending_inforesults[bad])
             /\ \A good \in RequestNamesF \ {bad} :
                   (/\ <<S3_REQUEST, good>> \in DOMAIN s3
                    /\ ~Malformed(good)) =>
                       LET d == s3[<<S3_REQUEST, good>>].body
                       IN  /\ good \in DOMAIN dirRequest'
                           /\ dirRequest'[good].data = d
                           /\ <<S3_PROCESSING, good>> \in DOMAIN s3'
                           /\ <<S3_REQUEST, good>> \notin DOMAIN s3'
                           /\ good \in DOMAIN pending_inforesults'
                           /\ pending_inforesults'[good]
                                = RequestTask(good, d.icon_filename)
                           /\ d.icon_filename[1] \in DOMAIN pending_imageresults']_vars

----------------------------------------------------------------------------
(* Delivery and the state of the store *)

\* The step retires slots and is not a start of the process.
Retires == hist'.restarts = hist.restarts

\* The state of the store that a retired info slot of name f, held for Task
\* t, is said to leave behind.
InfoSettled(store, f, t) ==
    /\ InfoKey(f) \in DOMAIN store
    /\ t.s3_processing_key \notin DOMAIN store
    /\ <<S3_PROCESSED, f>> \in DOMAIN store

\* The state of the store that a retired asset slot of base name b, held for
\* Task t, is said to leave behind.
ImageSettled(store, b, t) ==
    /\ ImageKey(<<b, JSON>>) \in DOMAIN store
    /\ <<S3_IMAGES, t.icon_filename>> \notin DOMAIN store

\* C21: whenever a step retires an info slot, the info result is under
\* inforesults/, the descriptor is under processed/ and no longer under
\* processing/; whenever a step retires an asset slot, the asset result is
\* under imageresults/ and the asset is no longer under images/.
C21_RetiredMeansSettled ==
    [][Retires =>
          /\ \A f \in Removed(pending_inforesults, pending_inforesults') :
                InfoSettled(s3', f, pending_inforesults[f])
          /\ \A b \in Removed(pending_imageresults, pending_imageresults') :
                ImageSettled(s3', b, pending_imageresults[b])]_vars

----------------------------------------------------------------------------
(* The batch and the add-sample pipeline with requests to the store and
   accesses to the local files that fail: at most MaxFaults faults in a
   behaviour, one handler run with one fault. *)

\* up: the names whose upload raises ClientError; raise: the keys or names at
\* which an exception leaves the handler; mv: the keys whose delete raises
\* ClientError; read: the keys whose downloaded file cannot be read.
PullFaults(at) ==
    LET none == [up |-> {}, raise |-> {}, mv |-> {}, read |-> {}]
    IN  IF hist.faults >= MaxFaults THEN {none}
        ELSE {none}
        \cup {[none EXCEPT !.up = {x}] : x \in at}
        \cup {[none EXCEPT !.raise = {x}] : x \in at}
        \cup {[none EXCEPT !.mv = {x}] : x \in at}
        \cup {[none EXCEPT !.read = {x}] : x \in at}

KeysUnder(prefix) == {k \in DOMAIN s3 : k[1] = prefix}

\* The manifests of the client: two names, with and without blank lines and
\* comments.
ManifestFilesF == {<<"b1", TXT>>, <<"b2", TXT>>}
ManifestBodiesF == {<<" A ", "", "# old", " B">>, <<"A">>}

\* The number of manifests the client has uploaded
SubmitsF ==
    Lookup(hist.submits, <<"b1", TXT>>, 0) + Lookup(hist.submits, <<"b2", TXT>>, 0)

NextPullF ==
    \/ \E f \in PullFaults(KeysUnder(S3_RBH)) :
          f.up = {} /\ f.mv = {} /\ PullBatches({}, {}, f)
    \/ \E f \in PullFaults(BatchNames(batches)) :
          f.mv = {} /\ f.read = {} /\ TryFinalizeBatches(<<"A", "B", "C">>, f.up, f)
    \/ SleepRBH
    \/ \E name \in ManifestFilesF, body \in ManifestBodiesF :
          pcRBH # "off" /\ SubmitsF < MaxSends /\ ClientSubmit(name, body)
    \/ \E h \in WorkedIds :
          /\ pcRBH # "off"
          /\ DescriptorAppears(h, [ok |-> TRUE, icon_filename |-> IconOf(h)])
    \/ \E h \in WorkedIds : pcRBH # "off" /\ InfoResultAppears(h)
    \/ \E h \in WorkedIds : pcRBH # "off" /\ ImageResultAppears(h)
    \/ \E f \in PullFaults(KeysUnder(S3_AS_IN)) :
          f.up = {} /\ f.mv = {} /\ f.read = {} /\ PullFromS3({}, {}, f)
    \/ \E f \in PullFaults(DOMAIN dirASDone \cup KeysUnder(S3_AS_IN)) :
          f.read = {} /\ ScanLocalDone({}, {}, f.up, f)
    \/ SleepAS
    \/ \E name \in SampleFiles, body \in SampleBodies : ClientAddSample(name, body)
    \/ \E name \in SampleFiles : SampleProcessed(name)

SpecPullF == InitPull /\ [][NextPullF]_vars

----------------------------------------------------------------------------
(* Side-channel completion *)

\* The step finalizes the side-channel manifest name.
Finalized(name) == name \in DOMAIN pending_names /\ name \notin DOMAIN pending_names'

\* bak holds a copy of name of the given kind.
InArchive(bak, name, kind) ==
    \E k \in DOMAIN bak : k[1] = name[1] /\ k[3] = name[2] /\ bak[k].kind = kind

\* What a finalized manifest is said to leave behind, but for the remote
\* manifest.
ArtifactsSettled(name) ==
    /\ <<S3_AS_DONE, name>> \in DOMAIN s3'
    /\ s3'[<<S3_AS_DONE, name>>].body = dirASDone[name].body
    /\ name \notin DOMAIN dirASIn'
    /\ name \notin DOMAIN dirASDone'
    /\ InArchive(dirASBak', name, "done")
    /\ name \in DOMAIN dirASIn => InArchive(dirASBak', name, "sample")

\* C22: when a step finalizes a side-channel manifest, its completion
\* artifact is under addsampleprocessed/ in the store, the manifest is no
\* longer under addsamples/ in the store, and neither local file is left in
\* its directory, both being in the archive.
C22_FinalizedMeansSettled ==
    [][\A name \in SampleFiles :
          Finalized(name) =>
             /\ ArtifactsSettled(name)
             /\ pending_names[name] \notin DOMAIN s3']_vars

\* The same for the steps in which no request to the store fails.
SettledWithoutFault ==
    [][\A name \in SampleFiles :
          (Finalized(name) /\ hist'.faults = hist.faults) =>
             /\ ArtifactsSettled(name)
             /\ pending_names[name] \notin DOMAIN s3']_vars

----------------------------------------------------------------------------
(* The loops of the three threads and the exceptions of a tick *)

\* The engine with faults: one of the three threads runs.
NextEngineF == NextPullF \/ NextReqF

SpecEngineF == InitEngine /\ [][NextEngineF]_vars

Threads == {"REQ", "RBH", "AS"}

\* The position of a thread in its loop, and the first handler of its tick.
PcOf(th) == CASE th = "REQ" -> pcReq [] th = "RBH" -> pcRBH [] OTHER -> pcAS

TopOf(th) == IF th = "REQ" THEN "request" ELSE "pull"

\* The number of exceptions of thread th that have left a handler.
Errors(h, th) == Lookup(h.errors, th, 0)

\* C23: an exception that leaves a handler of a thread puts the thread back
\* at the first handler of its tick, at least ERROR_SLEEP seconds later; and
\* no step of a behaviour ends the loop of a running thread.
C23_LoopSurvives ==
    [][\A th \in Threads :
          /\ Errors(hist', th) > Errors(hist, th) =>
                /\ PcOf(th)' = TopOf(th)
                /\ now' >= now + ERROR_SLEEP
          /\ PcOf(th) # "off" => PcOf(th)' # "off"]_vars

\* A thread in which an exception was raised has finished a whole tick since.
C23_Witness ==
    \/ Errors(hist, "REQ") > 0 /\ pcReq = "sleep"
    \/ Errors(hist, "RBH") > 0 /\ pcRBH = "sleep"
    \/ Errors(hist, "AS") > 0 /\ pcAS = "sleep"

----------------------------------------------------------------------------
(* The names of the asset results: the writer, the engine, the client *)

\* save_results_json: the result of the asset <base>.<ext> is written to
\* imageresults/<base>.json.
save_results_name(icon_filename) == <<icon_filename[1], JSON>>

\* mode_icon_json, mode_requestbyhash: the key the client polls and fetches,
\* PREFIX_IMAGERESULTS + icon_filename + ".json"
key_imgres(icon_filename) ==
    <<S3_IMAGERESULTS, <<icon_filename[1] \o icon_filename[2], JSON>>>>

\* The step publishes the asset result of Task t: it uploads the file that the
\* writer made for the asset of t and retires the slot.
Publishes(t) ==
    /\ Retires
    /\ t.icon_base_noext \in Removed(pending_imageresults, pending_imageresults')
    /\ Uploaded(ImageKey(save_results_name(t.icon_filename)))

\* C24: when the engine publishes the asset result of a Task, the key the
\* client polls for the asset of that Task is in the store.
C24_ClientFindsResult ==
    [][\A b \in DOMAIN pending_imageresults :
          Publishes(pending_imageresults[b]) =>
             key_imgres(pending_imageresults[b].icon_filename) \in DOMAIN s3']_vars

----------------------------------------------------------------------------
(* What makes a Task *)

\* The step downloads the descriptor `name`: its local copy is written in
\* this second.
PulledReq(name) ==
    /\ name \in DOMAIN dirRequest' /\ dirRequest'[name].mtime = now
    /\ ~(name \in DOMAIN dirRequest /\ dirRequest[name].mtime = now)

\* C25: a step arms the info slot of a descriptor, or an asset slot for it,
\* only if it downloads that descriptor: a descriptor that is listed and is
\* neither new nor updated makes no Task and arms no slot that was retired.
C25_TaskOnlyWhenPulled ==
    [][/\ \A name \in DOMAIN pending_inforesults' \ DOMAIN pending_inforesults :
             PulledReq(name)
       /\ \A b \in DOMAIN pending_imageresults' \ DOMAIN pending_imageresults :
             PulledReq(pending_imageresults'[b].req_json_name)]_vars

----------------------------------------------------------------------------
(* A manifest that cannot be read *)

\* The local copy of the manifest `name` cannot be read.
Unreadable(dir, name) == name \in DOMAIN dir /\ ~dir[name].readable

\* The step uploads the summary of the batch `name`.
SummaryUploaded(name) ==
    /\ <<S3_RBH_DONE, name>> \in DOMAIN s3'
    /\ s3'[<<S3_RBH_DONE, name>>].lm >= now
    /\ <<S3_RBH_DONE, name>> \in DOMAIN s3 =>
          s3'[<<S3_RBH_DONE, name>>] # s3[<<S3_RBH_DONE, name>>]

\* The step writes, uploads or archives a summary of the batch `name`.
Summarizes(name) ==
    \/ SummaryUploaded(name)
    \/ name \in DOMAIN dirRBHDone' /\ name \notin DOMAIN dirRBHDone
    \/ ArchivedNow(dirRBHBak, dirRBHBak', name)

\* C26: no step writes, uploads or archives a summary for a manifest whose
\* local copy cannot be read, and a pull that finds one manifest unreadable
\* records for every other manifest it downloads the ids of its content.
C26_UnreadableSkipped ==
    [][/\ \A name \in ManifestFilesF :
             Unreadable(dirRBH, name) => ~Summarizes(name)
       /\ \A bad \in ManifestFilesF, good \in ManifestFilesF :
             (/\ PulledRBH(bad) /\ Unreadable(dirRBH', bad)
              /\ PulledRBH(good) /\ ~Unreadable(dirRBH', good)) =>
                 /\ good \in BatchNames(batches')
                 /\ BatchOf(batches', good).hashes
                      = read_lines(s3[<<S3_RBH, good>>].body)]_vars

----------------------------------------------------------------------------
(* A manifest uploaded again *)

\* The ids of a manifest: its lines without the blanks around them, but for
\* the empty ones and those that start with "#".
IdsOf(body) ==
    {s \in {strip(body[i]) : i \in DOMAIN body} : s # "" /\ ~startswith_hash(s)}

\* The number of batches recorded under name
BatchCount(bs, name) == Cardinality({i \in DOMAIN bs : bs[i].name = name})

\* C27: a pull that downloads a manifest whose name has a batch leaves one
\* batch under that name, whose members are the ids of the content
\* downloaded and no other.
C27_ResubmissionReplaces ==
    [][\A name \in ManifestFiles :
          (PulledRBH(name) /\ name \in BatchNames(batches)) =>
             /\ BatchCount(batches', name) = 1
             /\ BatchOf(batches', name).hashes
                  = IdsOf(s3[<<S3_RBH, name>>].body)]_vars

\* The manifest b1.txt was downloaded twice, nothing was finalized in
\* between (the first content had ids), and the batch has the ids of the
\* second content, which has none.
C27_Witness ==
    /\ Lookup(hist.pulls, <<"b1", TXT>>, 0) = 2
    /\ dirRBHBak = Empty
    /\ BatchCount(batches, <<"b1", TXT>>) = 1
    /\ BatchOf(batches, <<"b1", TXT>>).hashes = {}
    /\ pcRBH = "finalize"

----------------------------------------------------------------------------
(* Slots have no timeout *)

\* C28: but for a start of the process, a step removes an info slot only if
\* the result of that name is in inforesults/ and the step uploads it, and an
\* asset slot only if <base>.json is in imageresults/ and the step uploads
\* it; a slot whose artifact has not appeared stays, however many ticks pass.
C28_SlotLeavesOnlyOnDelivery ==
    [][Retires =>
          /\ \A f \in Removed(pending_inforesults, pending_inforesults') :
                f \in DOMAIN dirInfoResults /\ Uploaded(InfoKey(f))
          /\ \A b \in Removed(pending_imageresults, pending_imageresults') :
                /\ <<b, JSON>> \in DOMAIN dirImageResults
                /\ Uploaded(ImageKey(<<b, JSON>>))]_vars

\* The only descriptor A.json was sent once, its info slot stayed pending for
\* two ticks or more, and was retired when the result was delivered.
C28_Witness ==
    /\ Lookup(hist.submits, <<"A", JSON>>, 0) = 1
    /\ <<S3_PROCESSED, <<"A", JSON>>>> \in DOMAIN s3
    /\ <<"A", JSON>> \in DOMAIN seen_s3_lm_request
    /\ s3[<<S3_PROCESSED, <<"A", JSON>>>>].lm
         >= seen_s3_lm_request[<<"A", JSON>>] + 6
    /\ <<"A", JSON>> \notin DOMAIN pending_inforesults

----------------------------------------------------------------------------
(* The order of the listed keys *)

\* _handle_new_request_from_s3 with the listed keys iterated in the order
\* `keys`, every request to the store succeeding
HandledInOrder(keys) ==
    _handle_from(keys,
                 [s3 |-> s3, req |-> dirRequest, up |-> dirUploadImages,
                  seen |-> seen_s3_lm_request, pinfo |-> pending_inforesults,
                  pimg |-> pending_imageresults, raised |-> FALSE,
                  fetch |-> hist.fetches],
                 now, {}, {}, {}, NoFaults)

\* What the handler leaves: the tables, the content of the store and of the
\* local directories, and whether the tick goes on.
Outcome(st) ==
    [pinfo |-> st.pinfo, pimg |-> st.pimg, seen |-> st.seen,
     store |-> Content(st.s3),
     req |-> [n \in DOMAIN st.req |-> st.req[n].data],
     up |-> st.up, raised |-> st.raised]

\* C29: at the start of a tick, whatever the order in which the listed
\* descriptors are iterated, the handler leaves the same tables, the same
\* store and the same local directories.
C29_OrderIndependent ==
    pcReq = "request" =>
       \A keys \in Perms(Range(s3_list_prefix(s3, S3_REQUEST))) :
          Outcome(HandledInOrder(keys))
            = Outcome(HandledInOrder(s3_list_prefix(s3, S3_REQUEST)))

----------------------------------------------------------------------------
(* Finalizing a batch *)

\* The step adds to the archive of the batch pipeline a file of the given
\* kind under the name `name`.
ArchivedKind(name, kind) ==
    \E k \in DOMAIN dirRBHBak' \ DOMAIN dirRBHBak :
       k[1] = name[1] /\ k[3] = name[2] /\ dirRBHBak'[k].kind = kind

\* The step leaves iconml/requestbyhashdone/<name> as it was.
SummaryUntouched(name) ==
    IF <<S3_RBH_DONE, name>> \in DOMAIN s3
    THEN /\ <<S3_RBH_DONE, name>> \in DOMAIN s3'
         /\ s3'[<<S3_RBH_DONE, name>>] = s3[<<S3_RBH_DONE, name>>]
    ELSE <<S3_RBH_DONE, name>> \notin DOMAIN s3'

\* The step uploads the summary of the batch and archives the summary and
\* the manifest.
FinalizedBatch(name) ==
    /\ SummaryUploaded(name)
    /\ name \notin DOMAIN dirRBHDone'
    /\ ArchivedKind(name, "summary")
    /\ name \in DOMAIN dirRBH =>
          (name \notin DOMAIN dirRBH' /\ ArchivedKind(name, "manifest"))

\* Every member of the batch `name` has its results.
AllDone(name) ==
    _all_done_for_batch(BatchOf(batches, name).hashes, <<"A", "B", "C">>).pending
       = <<>>

FetchFaults ==
    LET keys == {k \in DOMAIN s3 : k[1] \in {S3_REQUEST, S3_IMAGES}}
        none == [dl |-> {}, raise |-> {}]
    IN  IF hist.faults >= MaxFaults THEN {none}
        ELSE {none}
        \cup {[none EXCEPT !.dl = {k}] : k \in keys}
        \cup {[none EXCEPT !.raise = {k}] : k \in keys}

\* The request pipeline with results placed under the names A.json, B.json
\* and p.json with either time stamp, with or without a descriptor sent
\* before, and a store whose requests may fail.
NextSweepF ==
    \/ \E f \in FetchFaults :
          HandleNewRequest({}, f.dl, {}, {}, [NoFaults EXCEPT !.raise = f.raise])
    \/ \E f \in DeliverFaults(dirInfoResults) :
          ScanLocalInforesults({}, {}, f.up, <<>>, [mv |-> f.mv, raise |-> f.raise])
    \/ \E f \in DeliverFaults(dirImageResults) :
          ScanLocalImageresults({}, {}, f.up, <<>>, [mv |-> f.mv, raise |-> f.raise])
    \/ \E f \in DeliverFaults(dirInfoResults) :
          SyncInforesultsIncremental({}, {}, f.up, <<>>, [mv |-> f.mv, raise |-> f.raise])
    \/ \E f \in DeliverFaults(dirImageResults) :
          SyncImageresultsIncremental({}, {}, f.up, <<>>, [mv |-> f.mv, raise |-> f.raise])
    \/ SleepReq
    \/ \E name \in RequestNamesF :
          ClientSends(name, [ok |-> TRUE, icon_filename |-> <<"p", ".png">>])
    \/ \E name \in RequestNamesF, m \in Stamps : InfoResultPlaced(name, m)
    \/ \E m \in Stamps : ImageResultPlaced(<<"p", JSON>>, m)

SpecSweepF == InitReq /\ [][NextSweepF]_vars

\* A sweeper runs: to its end, or until an exception leaves it.
SweepInfoRuns == pcReq = "sync_info" /\ pcReq' # "sync_info"
SweepImageRuns == pcReq = "sync_image" /\ pcReq' # "sync_image"

\* The upload of f fails in the sweeper at pcReq: with ClientError, or with
\* another exception.
SweepUploadFails(f) ==
    \/ SyncInforesultsIncremental({}, {}, {f}, <<>>, NoFaults)
    \/ SyncInforesultsIncremental({}, {}, {}, <<>>, [mv |-> {}, raise |-> {f}])
    \/ SyncImageresultsIncremental({}, {}, {f}, <<>>, NoFaults)
    \/ SyncImageresultsIncremental({}, {}, {}, <<>>, [mv |-> {}, raise |-> {f}])

\* The time recorded for f is what it was, a missing record staying missing.
RecordKept(seen, seenNext, f) ==
    /\ f \in DOMAIN seenNext <=> f \in DOMAIN seen
    /\ f \in DOMAIN seen => seenNext[f] = seen[f]

\* What the guard of a sweeper promises for the complete .json file f of
\* dir: delivered says that the step uploads and archives it.
GuardOf(dir, seen, seenNext, f, delivered) ==
    LET m == dir[f].mtime
        due == m > Lookup(seen, f, 0)
    IN  /\ delivered => due
        /\ due => (delivered \/ SweepUploadFails(f))
        /\ delivered => (f \in DOMAIN seenNext /\ seenNext[f] = m)
        /\ ~delivered => RecordKept(seen, seenNext, f)

\* C31: a sweeper uploads and archives a stable result file exactly when its
\* modification time is later than the time recorded for its name (0 when
\* none is recorded), with or without a pending entry; it then records the
\* file's modification time; a file whose upload fails, and a file that is
\* not swept, keep the record they had.
C31_SweeperGuard ==
    [][/\ SweepInfoRuns =>
            \A f \in DOMAIN dirInfoResults :
               (endswith_json(f) /\ Complete(dirInfoResults[f])) =>
                  GuardOf(dirInfoResults, seen_local_inforesults_mtime,
                          seen_local_inforesults_mtime', f, DeliveredInfo(f))
       /\ SweepImageRuns =>
            \A f \in DOMAIN dirImageResults :
               (endswith_json(f) /\ Complete(dirImageResults[f])) =>
                  GuardOf(dirImageResults, seen_local_imageresults_mtime,
                          seen_local_imageresults_mtime', f, DeliveredImage(f))]_vars

\* The same with the failures of a request being ClientError only: none of
\* the uploads of the step raises another exception.
NoOtherException == hist'.errors = hist.errors

SweeperGuardClientError ==
    [][NoOtherException =>
       /\ SweepInfoRuns =>
            \A f \in DOMAIN dirInfoResults :
               (endswith_json(f) /\ Complete(dirInfoResults[f])) =>
                  GuardOf(dirInfoResults, seen_local_inforesults_mtime,
                          seen_local_inforesults_mtime', f, DeliveredInfo(f))
       /\ SweepImageRuns =>
            \A f \in DOMAIN dirImageResults :
               (endswith_json(f) /\ Complete(dirImageResults[f])) =>
                  GuardOf(dirImageResults, seen_local_imageresults_mtime,
                          seen_local_imageresults_mtime', f, DeliveredImage(f))]_vars


\* ---- C32 ----------------------------------------------------------------

\* _handle_new_request_from_s3 runs: to its end, or until an exception
\* leaves it.
HandleRuns ==
    /\ pcReq = "request"
    /\ pcReq' = "scan_info" \/ Errors(hist', "REQ") > Errors(hist, "REQ")

\* The step downloads the icon to uploadimages/.
Fetched(icon_filename) ==
    Lookup(hist'.fetches, icon_filename, 0) > Lookup(hist.fetches, icon_filename, 0)

\* The descriptors the handler processes: the .json keys listed under
\* iconml/request/ that it moves to iconml/processing/, which it does when
\* it has the local copy.
Processed ==
    {k[2] : k \in {k \in DOMAIN s3 : /\ k[1] = S3_REQUEST /\ endswith_json(k[2])
                                     /\ k \notin DOMAIN s3'}}

\* What a tick of the handler does about the icons.
AssetFetch ==
    /\ \A k \in DOMAIN s3 \cup DOMAIN s3' :
          k[1] = S3_IMAGES =>
             /\ Fetched(k[2]) =>
                   /\ k[2] \notin dirUploadImages
                   /\ k[2] \in dirUploadImages'
                   /\ hist'.fetches[k[2]] = Lookup(hist.fetches, k[2], 0) + 1
             /\ k[2] \in dirUploadImages => ~Fetched(k[2])
    /\ dirUploadImages \subseteq dirUploadImages'
    /\ \A n \in Processed :
          LET icon == dirRequest'[n].data.icon_filename
              task == RequestTask(n, icon)
          IN  /\ n \in DOMAIN pending_inforesults'
              /\ pending_inforesults'[n] = task
              /\ icon[1] \in DOMAIN pending_imageresults'
              /\ pending_imageresults'[icon[1]].icon_filename = icon
              /\ (hist'.faults = hist.faults /\ <<S3_IMAGES, icon>> \in DOMAIN s3)
                    => icon \in dirUploadImages'

\* C32: a tick of the handler downloads an icon only when uploadimages/ has
\* no file of its name, and then once; an icon that is there is not
\* downloaded again, whatever the store holds under its name; every valid
\* descriptor processed leaves a Task pending in both tables, also when the
\* download of its icon failed and the icon is not in uploadimages/.
C32_AssetFetch == [][HandleRuns => AssetFetch]_vars

\* The same for the ticks that no exception leaves: the downloads that fail
\* raise ClientError.
AssetFetchClientError == [][(HandleRuns /\ NoOtherException) => AssetFetch]_vars

\* The case of a download that failed with ClientError: the icon p.png is
\* not in uploadimages/, and the Task of A.json is pending in both tables.
IconFailedTaskPending ==
    /\ pcReq = "scan_info"
    /\ hist.faults = 1 /\ hist.errors = Empty
    /\ dirUploadImages = {}
    /\ <<"A", JSON>> \in DOMAIN pending_inforesults
    /\ "p" \in DOMAIN pending_imageresults
    /\ pending_imageresults["p"].icon_filename = <<"p", ".png">>

\* An icon in uploadimages/ was named by a second descriptor and was not
\* downloaded again.
CachedKept ==
    /\ pcReq = "scan_info"
    /\ <<"p", ".png">> \in dirUploadImages
    /\ Lookup(hist.fetches, <<"p", ".png">>, 0) = 1
    /\ <<"A", JSON>> \in DOMAIN dirRequest /\ <<"B", JSON>> \in DOMAIN dirRequest
    /\ dirRequest[<<"A", JSON>>].mtime # dirRequest[<<"B", JSON>>].mtime

----------------------------------------------------------------------------
(* The batch worker with manifests that are moved into requestbyhash/,
   replaced there, and written there in place *)

\* A writer creates the manifest in place, or truncates the one that is
\* there, and writes `first`; it keeps the file open.
ManifestWriterOpens(name, first) ==
    /\ pcW \in {"scan", "sleep"}
    /\ Lookup(hist.submits, name, 0) < MaxSubmits
    /\ dirRBH' = Put(dirRBH, name,
                     [kind |-> "manifest", mtime |-> now, size |-> Len(first),
                      open |-> TRUE, body |-> first, readable |-> TRUE])
    /\ hist' = [hist EXCEPT !.submits = Put(@, name, Lookup(@, name, 0) + 1)]
    /\ UNCHANGED <<now, s3, dirRequest, dirInfoResults, dirImageResults, pcRBH,
                   batches, rbh_seen_s3_lm, dirRBHDone, dirRBHBak,
                   wkVars, reqVars, asVars, adVars, sideVars>>

\* The writer appends the line `last` and closes the file.
ManifestWriterCloses(name, last) ==
    /\ pcW \in {"scan", "sleep"}
    /\ name \in DOMAIN dirRBH
    /\ dirRBH[name].open
    /\ dirRBH' = [dirRBH EXCEPT ![name].body = Append(@, last),
                                ![name].size = @ + 1,
                                ![name].mtime = now,
                                ![name].open = FALSE]
    /\ UNCHANGED <<now, s3, dirRequest, dirInfoResults, dirImageResults, pcRBH,
                   batches, rbh_seen_s3_lm, dirRBHDone, dirRBHBak, hist,
                   wkVars, reqVars, asVars, adVars, sideVars>>

\* The names to which a writer may append during STABLE_WAIT
Growing == SUBSET {f \in DOMAIN dirRBH : dirRBH[f].open}

NextRetrigger ==
    \/ \E oc \in Outcomes, grew \in Growing : ScanTxts(oc, grew)
    \/ TickMonitor
    \/ SleepW
    \/ \E name \in ManifestFiles, body \in WorkerManifestBodies :
          ManifestArrives(name, body)
    \/ \E name \in ManifestFiles, first \in {<<>>, <<"A">>} :
          ManifestWriterOpens(name, first)
    \/ \E name \in ManifestFiles : ManifestWriterCloses(name, "B")
    \/ \E h \in WorkedIds : InfoResultAppears(h)
    \/ \E h \in WorkedIds : ImageResultAppears(h)
    \/ TimePasses

SpecRetrigger == InitWorker /\ [][NextRetrigger]_vars


\* ---- C33 ----------------------------------------------------------------

\* The step starts a batch from the manifest f as it is in requestbyhash/:
\* it records the file's modification time and sets active_batches[stem].
BatchStarted(f) ==
    /\ f \in DOMAIN seen_mtime' /\ seen_mtime'[f] = dirRBH[f].mtime
    /\ \E i \in DOMAIN active_batches' :
          /\ active_batches'[i].name = f
          /\ active_batches'[i].start_ts = now
          /\ active_batches'[i].all_hashes = read_hashes_from_txt(dirRBH[f].body)

\* The size of f is the same and not zero before and after the debounce.
StableTxt(f, grew) == f \notin grew /\ dirRBH[f].size > 0

\* seen_mtime has no entry of f, or an earlier time than the file's.
NewOrLater(f) == f \notin DOMAIN seen_mtime \/ dirRBH[f].mtime > seen_mtime[f]

\* The batch of f has ended, which removed the file it was started from,
\* and a file of this name is there again, written in full.
Reappeared(f) ==
    /\ f \in DOMAIN dirRBH /\ ~dirRBH[f].open /\ dirRBH[f].size > 0
    /\ f \in DOMAIN dirRBHDone
    /\ f[1] \notin ActiveKeys(active_batches)

\* The batch of f is active and the file, written in full, no longer has the
\* lines the batch was started from.
OverwrittenInPlace(f) ==
    /\ f \in DOMAIN dirRBH /\ ~dirRBH[f].open /\ dirRBH[f].size > 0
    /\ \E i \in DOMAIN active_batches :
          /\ active_batches[i].name = f
          /\ active_batches[i].all_hashes # read_hashes_from_txt(dirRBH[f].body)

\* The file is the one seen_mtime recorded.
Unchanged(f) ==
    /\ f \in DOMAIN dirRBH /\ f \in DOMAIN seen_mtime
    /\ dirRBH[f].mtime = seen_mtime[f]

OverwrittenStarted ==
    /\ pcW = "monitor"
    /\ <<"b1", TXT>> \notin DOMAIN dirRBHDone
    /\ Lookup(hist.submits, <<"b1", TXT>>, 0) = 2
    /\ \E i \in DOMAIN active_batches :
          /\ active_batches[i].name = <<"b1", TXT>>
          /\ active_batches[i].start_ts = now
          /\ now > T0
    /\ seen_mtime[<<"b1", TXT>>] > T0

----------------------------------------------------------------------------
(* The request thread and the batch thread of the engine side by side, with
   the batch worker's files appearing in the local directories *)

\* main starts both threads.
InitRace ==
    /\ now = T0
    /\ InitAdapterIdle
    /\ InitSideIdle
    /\ s3 = Empty
    /\ dirRequest = Empty
    /\ dirInfoResults = Empty
    /\ dirImageResults = Empty
    /\ pcRBH = "pull"
    /\ batches = <<>>
    /\ rbh_seen_s3_lm = Empty
    /\ dirRBH = Empty
    /\ dirRBHDone = Empty
    /\ dirRBHBak = Empty
    /\ hist = [submits |-> Empty, puts |-> Empty, restarts |-> 0,
               faults |-> 0, errors |-> Empty, pulls |-> Empty,
               fetches |-> Empty]
    /\ InitWorkerIdle
    /\ InitASIdle
    /\ pcReq = "request"
    /\ pending_inforesults = Empty
    /\ pending_imageresults = Empty
    /\ seen_s3_lm_request = Empty
    /\ seen_local_inforesults_mtime = Empty
    /\ seen_local_imageresults_mtime = Empty
    /\ dirUploadImages = {}
    /\ dirBakInfoResults = Empty
    /\ dirBakImageResults = Empty

\* The manifest the client submits.
RaceBody == <<"A", "B">>

\* The batch worker writes the info result of h once, and the image worker
\* the result of the icon of h once.
WorkerWritesInfo(h) ==
    /\ <<h, <<>>, JSON>> \notin DOMAIN dirBakInfoResults
    /\ InfoResultAppears(h)

WorkerWritesImage(h) ==
    /\ <<IconOf(h)[1], <<>>, JSON>> \notin DOMAIN dirBakImageResults
    /\ ImageResultAppears(h)

\* The client submits one manifest.
ClientSubmitsOnce(name) == hist.submits = Empty /\ ClientSubmit(name, RaceBody)

\* A step of the batch thread, a step of the request thread
StepRBH ==
    \/ PullBatches({}, {}, NoFaults)
    \/ TryFinalizeBatches(<<"A", "B", "C">>, {}, NoFaults)
    \/ SleepRBH

StepReq ==
    \/ HandleNewRequest({}, {}, {}, {}, NoFaults)
    \/ ScanLocalInforesults({}, {}, {}, <<>>, NoFaults)
    \/ ScanLocalImageresults({}, {}, {}, <<>>, NoFaults)
    \/ SyncInforesultsIncremental({}, {}, {}, <<>>, NoFaults)
    \/ SyncImageresultsIncremental({}, {}, {}, <<>>, NoFaults)
    \/ SleepReq

NextRace ==
    \/ PullBatches({}, {}, NoFaults)
    \/ TryFinalizeBatches(<<"A", "B", "C">>, {}, NoFaults)
    \/ SleepRBH
    \/ HandleNewRequest({}, {}, {}, {}, NoFaults)
    \/ ScanLocalInforesults({}, {}, {}, <<>>, NoFaults)
    \/ ScanLocalImageresults({}, {}, {}, <<>>, NoFaults)
    \/ SyncInforesultsIncremental({}, {}, {}, <<>>, NoFaults)
    \/ SyncImageresultsIncremental({}, {}, {}, <<>>, NoFaults)
    \/ SleepReq
    \/ \E name \in ManifestFiles : ClientSubmitsOnce(name)
    \/ \E h \in WorkedIds :
          DescriptorAppears(h, [ok |-> TRUE, icon_filename |-> IconOf(h)])
    \/ \E h \in WorkedIds : WorkerWritesInfo(h)
    \/ \E h \in WorkedIds : WorkerWritesImage(h)

SpecRace == InitRace /\ [][NextRace]_vars

\* Both threads run on: run() is `while True`, and neither thread waits for
\* the other.
SpecRaceFair == SpecRace /\ WF_vars(StepRBH) /\ WF_vars(StepReq)


\* ---- C34 ----------------------------------------------------------------

\* The workers have produced the info result of h and the result of its
\* icon: each is in its result directory or in the archive of the request
\* thread.
Produced(h) ==
    /\ \/ <<h, JSON>> \in DOMAIN dirInfoResults
       \/ <<h, <<>>, JSON>> \in DOMAIN dirBakInfoResults
    /\ \/ <<IconOf(h)[1], JSON>> \in DOMAIN dirImageResults
       \/ <<IconOf(h)[1], <<>>, JSON>> \in DOMAIN dirBakImageResults

\* The batch of `name` is in the table and every member has both results.
AllProduced(name) ==
    /\ name \in BatchNames(batches)
    /\ BatchOf(batches, name).hashes # {}
    /\ \A h \in BatchOf(batches, name).hashes : Produced(h)

\* The summary of `name` is in iconml/requestbyhashdone/ and reports every
\* id of the manifest as completed.
FinalizedComplete(name) ==
    /\ DoneKey(name) \in DOMAIN s3
    /\ Range(Completed(s3[DoneKey(name)].body)) = Range(RaceBody)

\* The batch is pending and the request thread has moved a result of one of
\* its members from the result directory to the archive.
Lost(name) ==
    /\ name \in BatchNames(batches)
    /\ DoneKey(name) \notin DOMAIN s3
    /\ \E h \in BatchOf(batches, name).hashes :
          \/ /\ <<h, JSON>> \notin DOMAIN dirInfoResults
             /\ <<h, <<>>, JSON>> \in DOMAIN dirBakInfoResults
          \/ /\ <<IconOf(h)[1], JSON>> \notin DOMAIN dirImageResults
             /\ <<IconOf(h)[1], <<>>, JSON>> \in DOMAIN dirBakImageResults

\* C34: once every member of a batch has both results produced, the batch is
\* eventually finalized with every member reported completed, however the
\* steps of the request thread and of the batch thread interleave: also when
\* the request thread has archived a result before the batch thread's tick.
C34_BatchCompletes ==
    (AllProduced(<<"b1", TXT>>) /\ Lost(<<"b1", TXT>>))
       ~> FinalizedComplete(<<"b1", TXT>>)

\* Such a batch stays as it is: no later step finalizes it.
LostForever == [][Lost(<<"b1", TXT>>) => Lost(<<"b1", TXT>>)']_vars

\* Every member has both results, and the batch is one that stays pending.
ProducedAndLost == AllProduced(<<"b1", TXT>>) /\ Lost(<<"b1", TXT>>)



\* ---- C35 ----------------------------------------------------------------

\* The downloads of the keys under prefix that fail in one pull: one at most,
\* none when the run has had its failures.  dl: download_file raises
\* ClientError; raise: an exception that is no ClientError leaves the handler
\* at the key.
DownloadFaults(prefix) ==
    LET none == [dl |-> {}, raise |-> {}]
    IN  IF hist.faults >= MaxFaults THEN {none}
        ELSE {none}
        \cup {[none EXCEPT !.dl = {k}] : k \in KeysUnder(prefix)}
        \cup {[none EXCEPT !.raise = {k}] : k \in KeysUnder(prefix)}

\* The three pipelines, each with downloads that fail.
NextFetchF ==
    \/ \E f \in DownloadFaults(S3_RBH) :
          PullBatches({}, f.dl, [NoFaults EXCEPT !.raise = f.raise])
    \/ TryFinalizeBatches(<<"A", "B", "C">>, {}, NoFaults)
    \/ SleepRBH
    \/ \E name \in ManifestFilesF, body \in ManifestBodiesF :
          pcRBH # "off" /\ SubmitsF < MaxSends /\ ClientSubmit(name, body)
    \/ \E f \in DownloadFaults(S3_AS_IN) :
          PullFromS3({}, f.dl, [NoFaults EXCEPT !.raise = f.raise])
    \/ ScanLocalDone({}, {}, {}, NoFaults)
    \/ SleepAS
    \/ \E name \in SampleFiles, body \in SampleBodies : ClientAddSample(name, body)
    \/ \E name \in SampleFiles : SampleProcessed(name)
    \/ \E f \in DownloadFaults(S3_REQUEST) :
          HandleNewRequest({}, f.dl, {}, {}, [NoFaults EXCEPT !.raise = f.raise])
    \/ ScanLocalInforesults({}, {}, {}, <<>>, NoFaults)
    \/ ScanLocalImageresults({}, {}, {}, <<>>, NoFaults)
    \/ SyncInforesultsIncremental({}, {}, {}, <<>>, NoFaults)
    \/ SyncImageresultsIncremental({}, {}, {}, <<>>, NoFaults)
    \/ SleepReq
    \/ \E name \in RequestNamesF :
          ClientSends(name, [ok |-> TRUE, icon_filename |-> <<"p", ".png">>])
    \/ \E name \in RequestNamesF : InfoResultWritten(name)
    \/ ImageResultWritten(<<"p", JSON>>)

SpecFetchF == InitEngine /\ [][NextFetchF]_vars

\* key is in the store and new or updated for the watcher whose local
\* directory is dir and whose watch table is seen.
Eligible(store, key, dir, seen) ==
    /\ key \in DOMAIN store
    /\ is_new_or_updated(s3_head_last_modified_ts(store, key),
                         key[2] \in DOMAIN dir,
                         IF key[2] \in DOMAIN dir THEN dir[key[2]].mtime ELSE 0,
                         Lookup(seen, key[2], 0))

\* The tables f and g have the same entry, or none, for k.
SameEntry(f, g, k) ==
    /\ k \in DOMAIN f <=> k \in DOMAIN g
    /\ k \in DOMAIN f => f[k] = g[k]

\* The step leaves the batch of name as it is, or leaves the table without one.
SameBatch(name) ==
    /\ name \in BatchNames(batches) <=> name \in BatchNames(batches')
    /\ name \in BatchNames(batches) =>
          BatchOf(batches, name) = BatchOf(batches', name)

\* The step stores no Task made from the descriptor name.
NoTaskFrom(name) ==
    /\ SameEntry(pending_inforesults, pending_inforesults', name)
    /\ \A b \in DOMAIN pending_imageresults' :
          pending_imageresults'[b].req_json_name = name =>
             /\ b \in DOMAIN pending_imageresults
             /\ pending_imageresults[b] = pending_imageresults'[b]

\* A pull of the batch thread, of the add-sample thread, of the request
\* thread in which the download of key fails.
PullFailsRBH(key) ==
    /\ key[1] = S3_RBH /\ key[2][2] = TXT
    /\ Eligible(s3, key, dirRBH, rbh_seen_s3_lm)
    /\ PullBatches({}, {key}, NoFaults)

PullFailsAS(key) ==
    /\ key[1] = S3_AS_IN /\ key[2][2] = TXT
    /\ Eligible(s3, key, dirASIn, as_seen_s3_lm)
    /\ \/ PullFromS3({}, {key}, NoFaults)
       \/ PullFromS3({}, {}, [NoFaults EXCEPT !.raise = {key}])

PullFailsReq(key) ==
    /\ key[1] = S3_REQUEST /\ endswith_json(key[2])
    /\ Eligible(s3, key, dirRequest, seen_s3_lm_request)
    /\ \/ HandleNewRequest({}, {key}, {}, {}, NoFaults)
       \/ HandleNewRequest({}, {}, {}, {}, [NoFaults EXCEPT !.raise = {key}])

\* C35: a pull in which the download of a new or updated key fails leaves
\* the key's entry of the watch table as it was (absent or with the old
\* value), creates no batch, no pending entry and no Task from the key,
\* leaves the object in the store as it was, and leaves the key new or
\* updated for the next pull.
C35_FailedPullNoTrace ==
    [][\A key \in DOMAIN s3 :
          /\ PullFailsRBH(key) =>
                /\ SameEntry(rbh_seen_s3_lm, rbh_seen_s3_lm', key[2])
                /\ SameBatch(key[2])
                /\ SameEntry(s3, s3', key)
                /\ Eligible(s3', key, dirRBH', rbh_seen_s3_lm')
          /\ PullFailsAS(key) =>
                /\ SameEntry(as_seen_s3_lm, as_seen_s3_lm', key[2])
                /\ SameEntry(pending_names, pending_names', key[2])
                /\ SameEntry(s3, s3', key)
                /\ Eligible(s3', key, dirASIn', as_seen_s3_lm')
          /\ PullFailsReq(key) =>
                /\ SameEntry(seen_s3_lm_request, seen_s3_lm_request', key[2])
                /\ NoTaskFrom(key[2])
                /\ SameEntry(s3, s3', key)
                /\ <<S3_PROCESSING, key[2]>> \in DOMAIN s3' =>
                      SameEntry(s3, s3', <<S3_PROCESSING, key[2]>>)
                /\ Eligible(s3', key, dirRequest', seen_s3_lm_request')]_vars

\* The one manifest that was submitted has failed to download in the pull
\* that has just run: nothing was ever pulled, the thread goes on to finalize.
C35_Witness ==
    /\ pcRBH = "finalize"
    /\ SubmitsF = 1
    /\ hist.faults = 1
    /\ hist.pulls = Empty
    /\ KeysUnder(S3_RBH) # {}
    /\ rbh_seen_s3_lm = Empty
    /\ batches = <<>>

\* The same in the request thread, with the descriptor that failed still
\* under iconml/request/ and no Task pending.
DescriptorFailedNoTask ==
    /\ pcReq = "scan_info"
    /\ hist.faults = 1
    /\ seen_s3_lm_request = Empty
    /\ pending_inforesults = Empty
    /\ <<S3_REQUEST, <<"A", JSON>>>> \in DOMAIN s3



\* ---- C36 ----------------------------------------------------------------

\* The four counts a summary of the worker prints, added up.
CountsSum(body) ==
    SectionCount(body, "[SUCCESS COMPLETED]")
      + SectionCount(body, "[PENDING_OR_TIMEOUT]")
      + SectionCount(body, "[INFO_ONLY_NO_ICON]")
      + SectionCount(body, "[FAILED_EARLY]")

\* The lines of the manifest that name the id h and gave a descriptor with an
\* icon.
LinesOf(success_ready, h) == Len(SelectSeq(success_ready, LAMBDA p : p[1] = h))

\* C36: in every summary the worker writes, the counts of SUCCESS COMPLETED,
\* PENDING_OR_TIMEOUT, INFO_ONLY_NO_ICON and FAILED_EARLY add up to
\* TOTAL HASHES, the number of lines of the manifest.
C36_CountsSumToTotal ==
    [][MonitorStep =>
          \A x \in WorkerSummaries :
             CountsSum(x[2]) = SectionCount(x[2], "TOTAL HASHES:")]_vars

\* The counts add up in every summary in which no id listed as pending is
\* monitored for more than one line of the manifest, and the sum falls short
\* of the total otherwise.
CountsSumUnlessPendingRepeated ==
    [][MonitorStep =>
          \A x \in WorkerSummaries :
             LET repeated == {h \in Range(Pending(x[2])) :
                                 LinesOf(x[1].success_ready, h) > 1}
             IN  /\ repeated = {} =>
                       CountsSum(x[2]) = SectionCount(x[2], "TOTAL HASHES:")
                 /\ repeated # {} =>
                       CountsSum(x[2]) < SectionCount(x[2], "TOTAL HASHES:")]_vars

\* A summary of a manifest with a repeated id in which the repeated id is
\* completed: the counts add up to the three lines.
RepeatedCompleted ==
    /\ pcW = "sleep"
    /\ \E name \in DOMAIN dirRBHDone :
          /\ NoRepeat(Completed(dirRBHDone[name].body)) = FALSE
          /\ CountsSum(dirRBHDone[name].body) = 3



----------------------------------------------------------------------------
(* The client: iconml_request_demo.py, mode requestbyhash, beside the batch
   thread of the engine.  client = [pc, name, body, max_wait, poll, deadline,
   sightings, ok, fetched]: sightings lists, poll by poll, the time at which
   the loop of poll_until_exists was entered and what s3_exists returned;
   ok is <<>> until poll_until_exists returns; fetched lists what the loop
   over the hashes found. *)

MaxWaitSecs == 4         \* --max-wait of the run, when it is not 0
DEFAULT_POLL_SECS == 3

\* What the engine leaves unchanged when the client takes a step
ClientFrame ==
    UNCHANGED <<dirRequest, dirInfoResults, dirImageResults, pcRBH, batches,
                rbh_seen_s3_lm, dirRBH, dirRBHDone, dirRBHBak,
                wkVars, reqVars, asVars, adVars, sampleW, imageW>>

\* A variant that polls at the deadline too.
time_upto(t, deadline) == t <= deadline

\* poll_until_exists: while time.time() < deadline
time_before(t, deadline) == t < deadline

\* s3_exists: head_object answers, or raises ClientError with a code that
\* s3_exists takes for absence ("denied"), or raises what s3_exists passes on.
\* <<b>>: returns b; <<>>: raises.
s3_exists(store, key, out) ==
    IF out = "raise" THEN <<>>
    ELSE IF out = "denied" THEN <<FALSE>>
    ELSE <<key \in DOMAIN store>>

\* mode_requestbyhash, up to the upload of the manifest
ClientUploads ==
    /\ client.pc = "upload"
    /\ IF read_hashes_from_txt(client.body) = <<>>
       THEN /\ client' = [client EXCEPT !.pc = "exit2"]
            /\ UNCHANGED <<s3, hist>>
       ELSE /\ s3' = s3_upload(s3, <<S3_RBH, client.name>>, client.body, now)
            /\ hist' = [hist EXCEPT !.submits =
                           Put(@, client.name, Lookup(@, client.name, 0) + 1)]
            /\ client' = [client EXCEPT !.pc = "deadline"]
    /\ UNCHANGED now
    /\ ClientFrame

\* poll_until_exists: deadline = time.time() + max_wait
PollStarts ==
    /\ client.pc = "deadline"
    /\ client' = [client EXCEPT !.deadline = now + client.max_wait,
                                !.pc = "while"]
    /\ UNCHANGED <<now, s3, hist>>
    /\ ClientFrame

\* poll_until_exists: the test of the while loop; `return False` and the
\* sys.exit(3) of the caller when it fails
PollTests ==
    /\ client.pc = "while"
    /\ client' = IF time_before(now, client.deadline)
                 THEN [client EXCEPT !.pc = "exists",
                                     !.sightings = Append(@, [t |-> now,
                                                              found |-> FALSE])]
                 ELSE [client EXCEPT !.pc = "exit3", !.ok = <<FALSE>>]
    /\ UNCHANGED <<now, s3, hist>>
    /\ ClientFrame

\* poll_until_exists: s3_exists(key_done) and the return True
PollLooks(out) ==
    /\ client.pc = "exists"
    /\ LET r == s3_exists(s3, <<S3_RBH_DONE, client.name>>, out)
           n == Len(client.sightings)
       IN  client' =
             IF r = <<>> THEN [client EXCEPT !.pc = "raised"]
             ELSE IF r[1]
             THEN [client EXCEPT !.pc = "fetch", !.ok = <<TRUE>>,
                                 !.sightings[n].found = TRUE]
             ELSE [client EXCEPT !.pc = "sleep"]
    /\ UNCHANGED <<now, s3, hist>>
    /\ ClientFrame

\* poll_until_exists: time.sleep(poll_secs)
PollSleeps ==
    /\ client.pc = "sleep"
    /\ now' = now + client.poll
    /\ client' = [client EXCEPT !.pc = "while"]
    /\ UNCHANGED <<s3, hist>>
    /\ ClientFrame

\* mode_requestbyhash: one turn of the loop over the hashes
ClientFetches ==
    /\ client.pc = "fetch"
    /\ LET hashes == read_hashes_from_txt(client.body)
           h == hashes[Len(client.fetched) + 1]
           info == <<S3_INFORESULTS, <<h, JSON>> >> \in DOMAIN s3
           image == info /\ key_imgres(IconOf(h)) \in DOMAIN s3
       IN  client' = [client EXCEPT
                         !.fetched = Append(@, [hash |-> h, info |-> info,
                                                image |-> image]),
                         !.pc = IF Len(client.fetched) + 1 = Len(hashes)
                                THEN "done" ELSE "fetch"]
    /\ UNCHANGED <<now, s3, hist>>
    /\ ClientFrame

\* The request thread delivers the info result of h to the store.
InfoResultDelivered(h) ==
    /\ <<S3_INFORESULTS, <<h, JSON>> >> \notin DOMAIN s3
    /\ <<h, JSON>> \in DOMAIN dirInfoResults
    /\ s3' = s3_upload(s3, <<S3_INFORESULTS, <<h, JSON>> >>, <<h>>, now)
    /\ UNCHANGED <<now, hist, client>>
    /\ ClientFrame

ClientBodies == {<<" A ", "B">>, <<"#C", "  ">>}

InitPoll ==
    /\ now = T0
    /\ InitAdapterIdle
    /\ InitSampleWIdle
    /\ InitImageWIdle
    /\ client \in [pc : {"upload"}, name : {<<"b1", TXT>>}, body : ClientBodies,
                   max_wait : {0, MaxWaitSecs}, poll : {1, DEFAULT_POLL_SECS},
                   deadline : {0}, sightings : {<<>>}, ok : {<<>>},
                   fetched : {<<>>}]
    /\ s3 = Empty
    /\ dirRequest = Empty
    /\ dirInfoResults = Empty
    /\ dirImageResults = Empty
    /\ pcRBH = "pull"
    /\ batches = <<>>
    /\ rbh_seen_s3_lm = Empty
    /\ dirRBH = Empty
    /\ dirRBHDone = Empty
    /\ dirRBHBak = Empty
    /\ hist = [submits |-> Empty, puts |-> Empty, restarts |-> 0,
               faults |-> 0, errors |-> Empty, pulls |-> Empty,
               fetches |-> Empty]
    /\ InitWorkerIdle
    /\ InitReqIdle
    /\ InitASIdle

\* A step of the client
StepClient ==
    \/ ClientUploads
    \/ PollStarts
    \/ PollTests
    \/ \E out \in {"answer", "denied", "raise"} : PollLooks(out)
    \/ PollSleeps
    \/ ClientFetches

NextPoll ==
    \/ ClientUploads
    \/ PollStarts
    \/ PollTests
    \/ \E out \in {"answer", "denied", "raise"} : PollLooks(out)
    \/ PollSleeps
    \/ ClientFetches
    \/ PullBatches({}, {}, NoFaults)
    \/ TryFinalizeBatches(<<"A", "B", "C">>, {}, NoFaults)
    \/ SleepRBH
    \/ \E h \in WorkedIds :
          DescriptorAppears(h, [ok |-> TRUE, icon_filename |-> IconOf(h)])
    \/ \E h \in WorkedIds : InfoResultAppears(h)
    \/ \E h \in WorkedIds : ImageResultAppears(h)
    \/ InfoResultDelivered("A")

SpecPoll == InitPoll /\ [][NextPoll]_vars

\* The client is a process of its own: it takes its next step whatever the
\* engine does.
SpecPollFair == SpecPoll /\ WF_vars(StepClient)


\* ---- C37 ----------------------------------------------------------------

\* poll_until_exists is running; it has returned or raised.
Polling == client.pc \in {"while", "exists", "sleep"}
PollEnded == client.pc \in {"fetch", "done", "exit3", "raised"}

\* Some poll saw the key, before the deadline.
SawBeforeDeadline ==
    \E i \in DOMAIN client.sightings :
       client.sightings[i].found /\ client.sightings[i].t < client.deadline

\* What poll_until_exists has returned agrees with what its polls saw: every
\* poll was made before the deadline; True was returned if and only if a poll
\* saw the key; False was returned only at or after the deadline; and the
\* results per id are fetched only with True returned.
PollAgrees ==
    /\ \A i \in DOMAIN client.sightings : client.sightings[i].t < client.deadline
    /\ client.ok = <<TRUE>> <=> SawBeforeDeadline
    /\ client.ok = <<FALSE>> => now >= client.deadline /\ client.pc = "exit3"
    /\ client.pc \in {"fetch", "done"} => client.ok = <<TRUE>>
    /\ client.fetched # <<>> => SawBeforeDeadline

\* C37: a running poll_until_exists ends (it returns, or s3_exists raises);
\* it returns True exactly when a poll made before the deadline saw the key,
\* False once the deadline has passed with no poll having seen it; and the
\* client fetches results per id only after a poll saw the done marker.
C37_PollTerminates ==
    /\ [](client.pc # "off" => PollAgrees)
    /\ Polling ~> PollEnded

\* The done marker was seen in a later poll, after a sleep, and the results
\* were fetched.
C37_Witness ==
    /\ client.pc = "done"
    /\ Len(client.sightings) > 1
    /\ \E i \in DOMAIN client.fetched : client.fetched[i].info

\* The deadline passed with the marker never seen.
PollTimedOut ==
    /\ client.pc = "exit3"
    /\ Len(client.sightings) > 1



----------------------------------------------------------------------------
(* The add-sample worker: addsampleinfo.py, beside the add-sample thread of
   the engine.  sampleW = [pc, seen, starts]: seen is the set `seen` of main,
   starts counts the calls of process_txt_file per path. *)

POLL_INTERVAL_SAMPLES == 3

\* stable_new_files: the *.txt files not in known whose size is the same
\* before and after the wait and not zero (the engine writes a list in one
\* piece: no file grows during the wait)
stable_new_files(dir, known) ==
    SelectSeq(listdir(dir),
              LAMBDA f : f[2] = TXT /\ f \notin known /\ getsize(dir[f]) > 0)

\* move_to_processed: dst is <name>, or <base>_<int(time.time())><ext> when
\* <name> is taken
move_to_processed_dst(dir, name, t) ==
    IF name \in DOMAIN dir THEN <<name[1] \o "_" \o ToString(t), name[2]>>
    ELSE name

\* One turn of the loop of main over new_files; st = [seen, starts, inn, done].
\* process_txt_file returns or raises: the file is moved in the try or in the
\* handler.
_sample_one(st, txt, t) ==
    [seen |-> st.seen \cup {txt},
     starts |-> CountPut(st.starts, txt),
     inn |-> Del(st.inn, txt),
     done |-> Put(st.done, move_to_processed_dst(st.done, txt, t), st.inn[txt])]

RECURSIVE _sample_from(_, _, _)
_sample_from(txts, st, t) ==
    IF txts = <<>> THEN st
    ELSE _sample_from(Tail(txts), _sample_one(st, Head(txts), t), t)

\* main: one iteration of the loop, up to the sleep
SampleWorkerPolls ==
    /\ sampleW.pc = "poll"
    /\ LET st == _sample_from(stable_new_files(dirASIn, sampleW.seen),
                              [seen |-> sampleW.seen, starts |-> sampleW.starts,
                               inn |-> dirASIn, done |-> dirASDone], now)
       IN  /\ sampleW' = [pc |-> "sleep", seen |-> st.seen, starts |-> st.starts]
           /\ dirASIn' = st.inn
           /\ dirASDone' = st.done
    /\ UNCHANGED <<now, s3, hist, pcAS, as_seen_s3_lm, pending_names, dirASBak,
                   dirRequest, dirInfoResults, dirImageResults, pcRBH, batches,
                   rbh_seen_s3_lm, dirRBH, dirRBHDone, dirRBHBak, wkVars,
                   reqVars, adVars, client, imageW>>

\* main: time.sleep(POLL_INTERVAL)
SampleWorkerSleeps ==
    /\ sampleW.pc = "sleep"
    /\ now + POLL_INTERVAL_SAMPLES <= MaxTime
    /\ now' = now + POLL_INTERVAL_SAMPLES
    /\ sampleW' = [sampleW EXCEPT !.pc = "poll"]
    /\ UNCHANGED <<s3, hist, asVars,
                   dirRequest, dirInfoResults, dirImageResults, pcRBH, batches,
                   rbh_seen_s3_lm, dirRBH, dirRBHDone, dirRBHBak, wkVars,
                   reqVars, adVars, client, imageW>>

\* The host runs the add-sample thread of the engine and the worker.
InitHandOff ==
    /\ now = T0
    /\ InitAdapterIdle
    /\ InitClientIdle
    /\ InitImageWIdle
    /\ sampleW = [pc |-> "poll", seen |-> {}, starts |-> Empty]
    /\ s3 = Empty
    /\ dirRequest = Empty
    /\ dirInfoResults = Empty
    /\ dirImageResults = Empty
    /\ pcRBH = "off"
    /\ batches = <<>>
    /\ rbh_seen_s3_lm = Empty
    /\ dirRBH = Empty
    /\ dirRBHDone = Empty
    /\ dirRBHBak = Empty
    /\ hist = [submits |-> Empty, puts |-> Empty, restarts |-> 0,
               faults |-> 0, errors |-> Empty, pulls |-> Empty,
               fetches |-> Empty]
    /\ InitWorkerIdle
    /\ InitReqIdle
    /\ pcAS = "pull"
    /\ as_seen_s3_lm = Empty
    /\ pending_names = Empty
    /\ dirASIn = Empty
    /\ dirASDone = Empty
    /\ dirASBak = Empty

HandOffFiles == {<<"b1", TXT>>, <<"b2", TXT>>}

NextHandOff ==
    \/ PullFromS3({}, {}, NoFaults)
    \/ ScanLocalDone({}, {}, {}, NoFaults)
    \/ SleepAS
    \/ \E name \in HandOffFiles, body \in SampleBodies : ClientAddSample(name, body)
    \/ SampleWorkerPolls
    \/ SampleWorkerSleeps

SpecHandOff == InitHandOff /\ [][NextHandOff]_vars


\* ---- C38 ----------------------------------------------------------------

\* The worker runs one poll.
SamplePollStep == sampleW.pc = "poll" /\ sampleW'.pc = "sleep"

\* The lists in the inbox that are stable and not empty.
StableLists == {f \in DOMAIN dirASIn : f[2] = TXT /\ getsize(dirASIn[f]) > 0}

\* The poll starts the list f once and moves it to addsampleprocessed/.
HandedOff(f) ==
    /\ Lookup(sampleW'.starts, f, 0) = Lookup(sampleW.starts, f, 0) + 1
    /\ f \notin DOMAIN dirASIn'
    /\ f \in DOMAIN dirASDone'
    /\ dirASDone'[f] = dirASIn[f]

\* C38: after a poll of the worker every stable list of the inbox that is
\* not empty and that the engine has pulled and waits for has been started
\* once, and its artifact is in addsampleprocessed/ under the list's own
\* name, where the engine looks for it.
C38_HandOff ==
    [][SamplePollStep =>
          \A f \in StableLists \cap DOMAIN pending_names :
             /\ Lookup(sampleW'.starts, f, 0) = 1
             /\ f \in DOMAIN dirASDone']_vars

\* A poll hands off the lists whose path the worker has not had before; a
\* list whose path it has had is left where it is and is not started.
HandOffOfNewPaths ==
    [][SamplePollStep =>
          \A f \in StableLists :
             IF f \in sampleW.seen
             THEN /\ Lookup(sampleW'.starts, f, 0) = Lookup(sampleW.starts, f, 0)
                  /\ f \in DOMAIN dirASIn' /\ dirASIn'[f] = dirASIn[f]
                  /\ f \in DOMAIN dirASDone' =>
                        f \in DOMAIN dirASDone /\ dirASDone'[f] = dirASDone[f]
             ELSE HandedOff(f)]_vars

\* The engine waits for the artifact of a list that the worker passes over.
PassedOver(f) ==
    /\ f \in DOMAIN pending_names
    /\ f \in DOMAIN dirASIn
    /\ f \in sampleW.seen
    /\ f \notin DOMAIN dirASDone

\* A list passed over stays passed over.
PassedOverForever ==
    [][\A f \in HandOffFiles : PassedOver(f) => PassedOver(f)']_vars

\* A list of the second upload is passed over, a poll of the worker after its
\* pull is over.
SecondListPassedOver ==
    /\ PassedOver(<<"b1", TXT>>)
    /\ sampleW.pc = "sleep"
    /\ sampleW.starts[<<"b1", TXT>>] = 1
    /\ dirASIn[<<"b1", TXT>>].mtime < now



----------------------------------------------------------------------------
(* The image worker: iconml_siamese_compare.py.  imageW = [pc, seen, done,
   moves, compared]: seen is the set `seen` of main, done the names in
   doneimages/, moves and compared count, per upload, the moves to
   doneimages/ and the result files written. *)

POLL_INTERVAL_IMAGES == 1
MaxImageMoves == 2      \* times an image of one name is brought and moved

UploadNames == {<<"p", ".png">>, <<"q", ".jpg">>}

ImageFrame ==
    UNCHANGED <<s3, hist, dirRequest, dirInfoResults, pcRBH, batches,
                rbh_seen_s3_lm, dirRBH, dirRBHDone, dirRBHBak, wkVars, asVars,
                adVars, client, sampleW, pcReq, pending_inforesults,
                pending_imageresults, seen_s3_lm_request,
                seen_local_inforesults_mtime, seen_local_imageresults_mtime,
                dirBakInfoResults, dirBakImageResults>>

\* stable_new_files: the images of upload_dir that are not in known_set and
\* whose size is the same before and after the wait and not zero, in the
\* order ord of os.walk.  unstable: the files that grow or are empty.
stable_new_images(up, known_set, unstable, ord) ==
    InOrder({f \in up : f \notin known_set /\ f \notin unstable}, ord)

\* move_to_done: dst is <base>, or <name>_<int(time.time())><ext> when taken;
\* shutil.move raises when src_path is not there.  st = [up, done, moves, ..]
move_to_done(st, src_path, t) ==
    LET dst == IF src_path \in st.done
               THEN <<src_path[1] \o "_" \o ToString(t), src_path[2]>>
               ELSE src_path
    IN  IF src_path \notin st.up THEN [st EXCEPT !.raised = TRUE]
        ELSE [st EXCEPT !.up = @ \ {src_path}, !.done = @ \cup {dst},
                        !.moves = CountPut(@, src_path)]

\* One turn of the loop of main over new_files.
\* st = [up, done, moves, seen, res, compared, raised]; bad: the uploads that
\* load_img cannot load.
_compare_one(st, up, bad, t) ==
    LET st0 == [st EXCEPT !.seen = @ \cup {up}]
        failed == [move_to_done(st0, up, t) EXCEPT !.seen = @ \ {up}]
        st1 == move_to_done(st0, up, t)
        st2 == [st1 EXCEPT !.seen = @ \ {up}]
        st3 == [st2 EXCEPT !.res = Put(@, save_results_name(up),
                                       [mtime |-> t, open |-> FALSE,
                                        body |-> <<up[1]>>]),
                           !.compared = CountPut(@, up)]
    IN  IF st.raised THEN st
        ELSE IF up \in bad THEN failed
        ELSE IF st1.raised THEN st1
        ELSE move_to_done(st3, up, t)

RECURSIVE _compare_from(_, _, _, _)
_compare_from(ups, st, bad, t) ==
    IF ups = <<>> THEN st
    ELSE _compare_from(Tail(ups), _compare_one(st, Head(ups), bad, t), bad, t)

\* main: one iteration of the loop, up to the sleep of the loop or of the
\* handler of `except Exception`
ImageWorkerPolls(unstable, bad, ord) ==
    /\ imageW.pc = "poll"
    /\ unstable \subseteq dirUploadImages /\ bad \subseteq dirUploadImages
    /\ LET st == _compare_from(stable_new_images(dirUploadImages, imageW.seen,
                                                 unstable, ord),
                               [up |-> dirUploadImages, done |-> imageW.done,
                                moves |-> imageW.moves, seen |-> imageW.seen,
                                res |-> dirImageResults,
                                compared |-> imageW.compared, raised |-> FALSE],
                               bad, now)
       IN  /\ imageW' = [pc |-> "sleep", seen |-> st.seen, done |-> st.done,
                         moves |-> st.moves, compared |-> st.compared]
           /\ dirUploadImages' = st.up
           /\ dirImageResults' = st.res
    /\ UNCHANGED now
    /\ ImageFrame

\* main: time.sleep(POLL_INTERVAL)
ImageWorkerSleeps ==
    /\ imageW.pc = "sleep"
    /\ now + POLL_INTERVAL_IMAGES <= MaxTime
    /\ now' = now + POLL_INTERVAL_IMAGES
    /\ imageW' = [imageW EXCEPT !.pc = "poll"]
    /\ UNCHANGED <<dirUploadImages, dirImageResults>>
    /\ ImageFrame

\* An icon is brought to uploadimages/.
ImageArrives(name) ==
    /\ name \notin dirUploadImages
    /\ Lookup(imageW.moves, name, 0) < MaxImageMoves
    /\ dirUploadImages' = dirUploadImages \cup {name}
    /\ UNCHANGED <<now, imageW, dirImageResults>>
    /\ ImageFrame

InitImage ==
    /\ now = T0
    /\ InitAdapterIdle
    /\ InitClientIdle
    /\ InitSampleWIdle
    /\ imageW = [pc |-> "poll", seen |-> {}, done |-> {}, moves |-> Empty,
                 compared |-> Empty]
    /\ s3 = Empty
    /\ dirRequest = Empty
    /\ dirInfoResults = Empty
    /\ dirImageResults = Empty
    /\ pcRBH = "off"
    /\ batches = <<>>
    /\ rbh_seen_s3_lm = Empty
    /\ dirRBH = Empty
    /\ dirRBHDone = Empty
    /\ dirRBHBak = Empty
    /\ hist = [submits |-> Empty, puts |-> Empty, restarts |-> 0,
               faults |-> 0, errors |-> Empty, pulls |-> Empty,
               fetches |-> Empty]
    /\ InitWorkerIdle
    /\ InitReqIdle
    /\ InitASIdle

\* The orders in which os.walk lists the uploads
WalkOrders ==
    {<< <<"p", ".png">>, <<"q", ".jpg">> >>,
     << <<"q", ".jpg">>, <<"p", ".png">> >>}

NextImage ==
    \/ \E unstable \in SUBSET dirUploadImages, bad \in SUBSET dirUploadImages :
          \E ord \in WalkOrders : ImageWorkerPolls(unstable, bad, ord)
    \/ ImageWorkerSleeps
    \/ \E name \in UploadNames : ImageArrives(name)

SpecImage == InitImage /\ [][NextImage]_vars


\* ---- C39 ----------------------------------------------------------------

\* The poll compares the upload up, writes its result, moves it to
\* doneimages/ once and leaves it out of the seen set.
ComparedAndMoved(up) ==
    /\ Lookup(imageW'.compared, up, 0) = Lookup(imageW.compared, up, 0) + 1
    /\ save_results_name(up) \in DOMAIN dirImageResults'
    /\ dirImageResults'[save_results_name(up)].mtime = now
    /\ Lookup(imageW'.moves, up, 0) = Lookup(imageW.moves, up, 0) + 1
    /\ up \notin dirUploadImages'
    /\ up \notin imageW'.seen

\* The poll leaves the upload up where it is, not compared, not in the seen
\* set.
LeftForLater(up) ==
    /\ Lookup(imageW'.compared, up, 0) = Lookup(imageW.compared, up, 0)
    /\ Lookup(imageW'.moves, up, 0) = Lookup(imageW.moves, up, 0)
    /\ up \in dirUploadImages'
    /\ up \notin imageW'.seen

\* C39: a poll of the image worker compares every stable new upload that its
\* scan found, writes the result <base>.json of each, moves each to
\* doneimages/ exactly once and leaves none of them in the seen set.
C39_EveryImageInPoll ==
    [][\A unstable \in SUBSET dirUploadImages, bad \in SUBSET dirUploadImages :
          \A ord \in WalkOrders :
             ImageWorkerPolls(unstable, bad, ord) =>
                \A i \in DOMAIN stable_new_images(dirUploadImages, imageW.seen,
                                                  unstable, ord) :
                   ComparedAndMoved(stable_new_images(dirUploadImages,
                                                      imageW.seen, unstable,
                                                      ord)[i])]_vars

\* What a poll does: of the uploads the scan found, in their order, those
\* that cannot be loaded and come before the first that can are moved once
\* without a result; the first that can be loaded is compared and moved once;
\* all that follow are left for a later poll.
OneImageInPoll ==
    [][\A unstable \in SUBSET dirUploadImages, bad \in SUBSET dirUploadImages :
          \A ord \in WalkOrders :
             ImageWorkerPolls(unstable, bad, ord) =>
                LET new == stable_new_images(dirUploadImages, imageW.seen,
                                             unstable, ord)
                    good == {i \in DOMAIN new : new[i] \notin bad}
                IN  \A i \in DOMAIN new :
                       IF \E j \in good : j < i THEN LeftForLater(new[i])
                       ELSE IF i \in good THEN ComparedAndMoved(new[i])
                       ELSE /\ Lookup(imageW'.moves, new[i], 0)
                                 = Lookup(imageW.moves, new[i], 0) + 1
                            /\ Lookup(imageW'.compared, new[i], 0)
                                 = Lookup(imageW.compared, new[i], 0)
                            /\ new[i] \notin dirUploadImages'
                            /\ new[i] \notin imageW'.seen]_vars

\* Two uploads were in uploadimages/ at a poll: one is compared and moved,
\* the other is still there when the worker sleeps.
SecondImageWaits ==
    /\ imageW.pc = "sleep"
    /\ Lookup(imageW.compared, <<"p", ".png">>, 0) = 1
    /\ <<"q", ".jpg">> \in dirUploadImages
    /\ Lookup(imageW.compared, <<"q", ".jpg">>, 0) = 0


============================================================================
